---- MODULE Spec2Model ----
(***************************************************************************)
(* Per-request data-resolution pipeline of the marketplace GraphQL BFF:    *)
(* request context (identity + loaders), DataLoader batching, the          *)
(* authorization guards used by the resolvers, and the persisted-query     *)
(* store in front of the cache service.                                    *)
(***************************************************************************)
EXTENDS Integers, Sequences, FiniteSets, TLC

VARIABLES
    ctx,        \* per request slot: the GraphQLContext built by createContext, or NoCtx
    registry,   \* per loader set: the DataLoader instances made by createLoaders
    callers,    \* per request slot: the load() calls issued by its resolvers
    nContexts,  \* number of createContext calls so far
    nLoads,     \* number of load() calls so far
    orders,     \* backing store: the orders table
    op,         \* per request slot: the resolver call in progress or last finished
    nOps,       \* number of resolver calls so far
    queries,    \* PersistedQueryStore.queries: the in-memory map
    useRedis,   \* PersistedQueryStore.useRedis
    client,     \* CacheService.client: "null", "real" or "mock"
    isConnected,\* CacheService.isConnected
    redisUp,    \* whether the Redis server can be reached
    redis,      \* the keys held by the Redis server
    lastApq,    \* the last APQManager.handleRequest call and its outcome
    registered, \* per hash: the body last registered, or that it was removed
    lastStore,  \* the last PersistedQueryStore call and what it did
    lastCache,  \* the last cacheService call made by a caller, and its reply
    page,       \* the list query being answered and its outcome, NoCall between requests
    fields,     \* the child field being resolved for a list of parents, NoCall when idle
    validation, \* the validation of a query document in progress, NoCall when idle
    accounts,   \* the users table, the response cookie and the last register/login call
    shown,      \* the product list the client shows: the merged pages, NoCall when none
    checkout,   \* the order and order_items rows written by createOrder, and its last call
    cart,       \* the cart_items table and the last removeFromCart/updateCartItem call
    cartState   \* the state of the frontend cartReducer

loadVars == <<registry, callers, nLoads>>

authVars == <<orders, op, nOps>>

cacheVars == <<client, isConnected, redisUp, redis, lastCache>>

apqVars == <<queries, useRedis, lastApq, registered, lastStore>>

pageVars == <<page>>

appVars == <<fields, validation, accounts, shown, checkout, cart, cartState>>

reqVars == <<ctx, nContexts, loadVars, authVars>>

exceptCartState == <<reqVars, cacheVars, apqVars, pageVars, fields, validation, accounts, shown, checkout, cart>>

exceptCart == <<reqVars, cacheVars, apqVars, pageVars, fields, validation, accounts, shown, checkout, cartState>>

exceptCheckout == <<reqVars, cacheVars, apqVars, pageVars, fields, validation, accounts, shown, cart, cartState>>

exceptShown == <<reqVars, cacheVars, apqVars, pageVars, fields, validation, accounts, checkout, cart, cartState>>

exceptShownPage == <<reqVars, cacheVars, apqVars, fields, validation, accounts, checkout, cart, cartState>>

exceptAccounts == <<reqVars, cacheVars, apqVars, pageVars, fields, validation, shown, checkout, cart, cartState>>

exceptFields == <<reqVars, cacheVars, apqVars, pageVars, validation, accounts, shown, checkout, cart, cartState>>

exceptValidation == <<reqVars, cacheVars, apqVars, pageVars, fields, accounts, shown, checkout, cart, cartState>>

vars == <<ctx, registry, callers, nContexts, nLoads, orders, op, nOps,
          queries, useRedis, client, isConnected, redisUp, redis, lastApq, registered,
          lastStore, lastCache, page, fields, validation, accounts, shown, checkout, cart, cartState>>

----------------------------------------------------------------------------
(* Bounds *)

MaxContexts == 2
MaxLoads == 2
MaxOps == 2

----------------------------------------------------------------------------
(* Values *)

Requests == {"r1", "r2"}

LoaderNames == {"productsByIds", "reviewsByProduct"}

Keys == {"p1", "p2", "p3"}

NoCtx == [none |-> TRUE]

RECURSIVE SeqToSet(_)
SeqToSet(s) == IF s = <<>> THEN {} ELSE {Head(s)} \cup SeqToSet(Tail(s))

Count(s, x) == Cardinality({i \in 1..Len(s) : s[i] = x})

----------------------------------------------------------------------------
(* Backing store: the rows the DAOs select from.  p3 has no product row    *)
(* and no review; the tables are not stored in key order.                  *)

productsTable ==
    << [id |-> "p2", seller_id |-> "u1"],
       [id |-> "p1", seller_id |-> "u2"] >>

reviewsTable ==
    << [id |-> "rv3", product_id |-> "p2"],
       [id |-> "rv2", product_id |-> "p1"],
       [id |-> "rv1", product_id |-> "p1"] >>

\* The error a failing executeQuery throws; every throw is its own error object
StoreError(l, b) == [code |-> "ORA-03113", loader |-> l, batch |-> b]

\* ProductDAO.findByIds: SELECT * FROM products WHERE id IN (:ids)
findByIds(ids) ==
    IF Len(ids) = 0 THEN <<>>
    ELSE SelectSeq(productsTable, LAMBDA row : row.id \in SeqToSet(ids))

\* ProductDAO.findReviewsByProducts: SELECT * FROM reviews WHERE product_id IN (:productIds)
findReviewsByProducts(productIds) ==
    IF Len(productIds) = 0 THEN <<>>
    ELSE SelectSeq(reviewsTable, LAMBDA row : row.product_id \in SeqToSet(productIds))

----------------------------------------------------------------------------
(* Authorization header and access tokens *)

SP == " "

\* A header is a string, written as its space-free chunks and single spaces
NoHeader == <<"undefined">>

\* What jwt.sign put into each token string; "garbage" is no JWT at all
Malformed == [malformed |-> TRUE]

PayloadU1 == [userId |-> "u1", email |-> "u1@shop", isAdmin |-> FALSE]
PayloadU2 == [userId |-> "u2", email |-> "u2@shop", isAdmin |-> FALSE]
PayloadAdmin == [userId |-> "u3", email |-> "admin@shop", isAdmin |-> TRUE]

jwtSecret == "jwtSecret"
refreshSecret == "refreshSecret"

AccessJwt(payload) ==
    [secret |-> jwtSecret, iss |-> "marketplace-api", aud |-> "marketplace-client",
     expired |-> FALSE, payload |-> payload]

JwtOf(token) ==
    CASE token = "tokU1" -> AccessJwt(PayloadU1)
      [] token = "tokU2" -> AccessJwt(PayloadU2)
      [] token = "tokAdmin" -> AccessJwt(PayloadAdmin)
      [] token = "tokExpired" -> [AccessJwt(PayloadU1) EXCEPT !.expired = TRUE]
      [] token = "tokForged" -> [AccessJwt(PayloadAdmin) EXCEPT !.secret = "attackerSecret"]
      [] token = "tokWrongIss" -> [AccessJwt(PayloadAdmin) EXCEPT !.iss = "other-api"]
      [] token = "tokWrongAud" -> [AccessJwt(PayloadAdmin) EXCEPT !.aud = "other-client"]
      [] token = "tokRefresh" ->
            [secret |-> refreshSecret, iss |-> "marketplace-api",
             aud |-> "marketplace-client", expired |-> FALSE,
             payload |-> [userId |-> "u1", sessionId |-> "s1"]]
      [] token = "tokCsrf" ->
            [secret |-> jwtSecret, iss |-> "none", aud |-> "none", expired |-> FALSE,
             payload |-> [csrf |-> TRUE, timestamp |-> 1]]
      [] OTHER -> Malformed

Null == [null |-> TRUE]

\* authHeader.split(' '): the pieces between the spaces, "" between two spaces
RECURSIVE Split(_, _)
Split(h, acc) ==
    IF h = <<>> THEN <<acc>>
    ELSE IF Head(h) = SP THEN <<acc>> \o Split(Tail(h), "")
    ELSE Split(Tail(h), Head(h))

\* AuthService.extractTokenFromHeader
extractTokenFromHeader(authHeader) ==
    IF authHeader = NoHeader \/ authHeader = <<>> THEN Null
    ELSE LET parts == Split(authHeader, "")
         IN  IF Len(parts) # 2 \/ parts[1] # "Bearer" THEN Null
             ELSE IF parts[2] = "" THEN Null ELSE [token |-> parts[2]]

jwtVerify_ignoreExpiry(token, secret, issuer, audience) ==
    LET jwt == JwtOf(token)
    IN  IF jwt = Malformed THEN [threw |-> TRUE]
        ELSE IF jwt.secret # secret \/ jwt.iss # issuer \/ jwt.aud # audience
        THEN [threw |-> TRUE]
        ELSE [threw |-> FALSE, payload |-> jwt.payload]

\* jwt.verify(token, secret, {issuer, audience}): the payload, or a throw
jwtVerify(token, secret, issuer, audience) ==
    LET jwt == JwtOf(token)
    IN  IF jwt = Malformed THEN [threw |-> TRUE]
        ELSE IF jwt.secret # secret \/ jwt.expired
                \/ jwt.iss # issuer \/ jwt.aud # audience
        THEN [threw |-> TRUE]
        ELSE [threw |-> FALSE, payload |-> jwt.payload]

\* AuthService.verifyAccessToken
verifyAccessToken(token) ==
    LET v == jwtVerify(token, jwtSecret, "marketplace-api", "marketplace-client")
    IN  IF v.threw THEN Null ELSE v.payload

\* createContext, lines 34-47: the identity of the request
ContextUser(authHeader) ==
    IF authHeader = NoHeader \/ authHeader = <<>> THEN Null
    ELSE LET token == extractTokenFromHeader(authHeader)
         IN  IF token = Null THEN Null ELSE verifyAccessToken(token.token)

Headers ==
    { NoHeader, <<>>,
      <<"Bearer", SP, "tokU1">>, <<"Bearer", SP, "tokU2">>, <<"Bearer", SP, "tokAdmin">>,
      <<"Bearer", SP, "tokExpired">>, <<"Bearer", SP, "tokForged">>,
      <<"Bearer", SP, "tokWrongIss">>, <<"Bearer", SP, "tokWrongAud">>,
      <<"Bearer", SP, "tokRefresh">>, <<"Bearer", SP, "tokCsrf">>,
      <<"Bearer", SP, "garbage">>,
      <<"Basic", SP, "tokAdmin">>, <<"bearer", SP, "tokAdmin">>, <<"tokAdmin">>,
      <<"Bearer">>, <<"Bearer", SP>>, <<"Bearer", SP, SP, "tokAdmin">>,
      <<"Bearer", SP, "tokAdmin", SP, "x">> }

\* The headers the loader specification draws from
LoadHeaders == { NoHeader, <<"Bearer", SP, "tokU1">> }

----------------------------------------------------------------------------
(* createLoaders: the batch functions handed to DataLoader *)

NullValue == [kind |-> "null"]
EntityValue(row) == [kind |-> "entity", row |-> row]
ListValue(rows) == [kind |-> "list", rows |-> rows]
ErrorValue(e) == [kind |-> "error", error |-> e]
NoValue == [kind |-> "none"]

\* products.find(product => product.id === id) || null
FindById(rows, id) ==
    LET hits == SelectSeq(rows, LAMBDA row : row.id = id)
    IN  IF hits = <<>> THEN NullValue ELSE EntityValue(Head(hits))

productsByIdsBatch_rows(ids, rows) == [i \in 1..Len(rows) |-> EntityValue(rows[i])]

\* ids.map(id => products.find(product => product.id === id) || null)
productsByIdsBatch(ids, rows) == [i \in 1..Len(ids) |-> FindById(rows, ids[i])]

\* productIds.map(productId => reviews.filter(review => review.product_id === productId))
reviewsByProductBatch(productIds, rows) ==
    [i \in 1..Len(productIds) |->
        ListValue(SelectSeq(rows, LAMBDA row : row.product_id = productIds[i]))]

\* The fetch-many a loader's batch function awaits
FetchMany(l, keys) ==
    IF l = "productsByIds" THEN findByIds(keys) ELSE findReviewsByProducts(keys)

\* The value list a loader's batch function returns for the fetched rows
BatchValues(l, keys, rows) ==
    IF l = "productsByIds" THEN productsByIdsBatch(keys, rows)
    ELSE reviewsByProductBatch(keys, rows)

\* DataLoader's error for a batch function whose result is not one value per key
TypeError == [code |-> "TypeError"]

LoaderOptions_noCache == [cache |-> FALSE]

\* The options createLoaders passes to new DataLoader(batchFn): none, so the defaults
LoaderOptions == [cache |-> TRUE]

\* A fresh DataLoader: empty cache map, no batch scheduled
EmptyLoader ==
    [cache    |-> [k \in Keys |-> 0],   \* key -> index of its cached promise, 0 = absent
     promises |-> <<>>,                 \* the promises handed out by load()
     cur      |-> 0,                    \* id of the batch being filled, 0 = none
     keys     |-> <<>>,                 \* keys of the batch being filled
     nBatch   |-> 0,                    \* batches created so far
     fetches  |-> <<>>]                 \* calls of the backing fetch-many

createLoaders_shared(r) == [id |-> "r1", loaders |-> registry["r1"]]

\* createLoaders(): a new loader set, owned by the request being set up
createLoaders(r) == [id |-> r, loaders |-> [l \in LoaderNames |-> EmptyLoader]]

----------------------------------------------------------------------------
(* Authorization guards *)

AuthenticationRequired == "Authentication required"
AccessDeniedInsufficient == "Access denied: insufficient permissions"
AccessDenied == "Access denied"

requireAuth_guest(user) ==
    IF user = Null
    THEN [threw |-> FALSE,
          user |-> [userId |-> "guest", email |-> "none", isAdmin |-> FALSE]]
    ELSE [threw |-> FALSE, user |-> user]

\* requireAuth(context)
requireAuth(user) ==
    IF user = Null
    THEN [threw |-> TRUE, error |-> AuthenticationRequired]
    ELSE [threw |-> FALSE, user |-> user]

requireOwnership_either(user, resourceUserId) ==
    LET auth == requireAuth(user)
    IN  IF auth.threw THEN auth
        ELSE IF auth.user.userId # resourceUserId \/ ~auth.user.isAdmin
        THEN [threw |-> TRUE, error |-> AccessDeniedInsufficient]
        ELSE [threw |-> FALSE, user |-> auth.user]

\* requireOwnership(context, resourceUserId)
requireOwnership(user, resourceUserId) ==
    LET auth == requireAuth(user)
    IN  IF auth.threw THEN auth
        ELSE IF auth.user.userId # resourceUserId /\ ~auth.user.isAdmin
        THEN [threw |-> TRUE, error |-> AccessDeniedInsufficient]
        ELSE [threw |-> FALSE, user |-> auth.user]

----------------------------------------------------------------------------
(* Orders: store and resolvers *)

OrderIds == {"o1", "o2", "o3"}

NoOrder == [absent |-> TRUE]

\* o3 is not in the table
InitOrders ==
    [id \in OrderIds |->
        CASE id = "o1" -> [id |-> "o1", user_id |-> "u1", status |-> "pending"]
          [] id = "o2" -> [id |-> "o2", user_id |-> "u2", status |-> "delivered"]
          [] OTHER -> NoOrder]

validStatuses == <<"pending", "confirmed", "shipped", "delivered", "cancelled">>

\* The status arguments a client sends to updateOrderStatus
StatusArgs == {"SHIPPED", "delivered", "Cancelled", "refunded"}

\* status.toLowerCase()
toLowerCase(str) ==
    CASE str = "SHIPPED" -> "shipped"
      [] str = "Cancelled" -> "cancelled"
      [] OTHER -> str

\* status.toUpperCase()
toUpperCase(str) ==
    CASE str = "pending" -> "PENDING"
      [] str = "confirmed" -> "CONFIRMED"
      [] str = "shipped" -> "SHIPPED"
      [] str = "delivered" -> "DELIVERED"
      [] str = "cancelled" -> "CANCELLED"
      [] OTHER -> str

\* transformOrder(order)
transformOrder(order) == [id |-> order.id, status |-> toUpperCase(order.status)]

\* OrderDAO.findById: SELECT * FROM orders WHERE id = :id; rows[0] || null
findById(id) == IF orders[id] = NoOrder THEN Null ELSE orders[id]

\* OrderDAO.findByUser with the default page: the user's orders and their count
findByUser(userId) ==
    LET mine == {id \in OrderIds : orders[id] # NoOrder /\ orders[id].user_id = userId}
    IN  [orders |-> mine, totalCount |-> Cardinality(mine)]

IdleOp == [name |-> "none", pc |-> "idle"]

\* A resolver call that has returned or thrown
\*   guard: the ownership check it reached, passed: whether that check let it through
DoneOp(name, id, user, reads, writes, guard, owner, passed, error, result) ==
    [name |-> name, pc |-> "done", id |-> id, user |-> user,
     reads |-> reads, writes |-> writes,
     guard |-> guard, owner |-> owner, passed |-> passed,
     error |-> error, result |-> result]

\* A mutation that passed its checks and awaits orderDAO.update(id, {status})
AwaitUpdate(name, id, user, guard, owner, status) ==
    [name |-> name, pc |-> "update", id |-> id, user |-> user,
     reads |-> 1, writes |-> 0,
     guard |-> guard, owner |-> owner, passed |-> TRUE,
     error |-> "none", result |-> Null, status |-> status]

CanCall(r) ==
    /\ ctx[r] # NoCtx
    /\ op[r].pc # "update"
    /\ nOps < MaxOps

Finish(r, done) ==
    /\ op' = [op EXCEPT ![r] = done]
    /\ nOps' = nOps + 1
    /\ UNCHANGED <<ctx, nContexts, loadVars, cacheVars, apqVars, pageVars, appVars>>

\* orderResolvers.Query.order
Query_order(r, id) ==
    /\ CanCall(r)
    /\ LET user == ctx[r].user
           order == findById(id)
       IN  IF order = Null
           THEN Finish(r, DoneOp("order", id, user, 1, 0, "none", Null, FALSE,
                                 "none", Null))
           ELSE LET own == requireOwnership(user, order.user_id)
                IN  IF own.threw
                    THEN Finish(r, DoneOp("order", id, user, 1, 0, "requireOwnership",
                                          order.user_id, FALSE, own.error, Null))
                    ELSE Finish(r, DoneOp("order", id, user, 1, 0, "requireOwnership",
                                          order.user_id, TRUE, "none",
                                          transformOrder(order)))
    /\ UNCHANGED orders

\* orderResolvers.Query.myOrders, called with the default pagination
Query_myOrders(r) ==
    /\ CanCall(r)
    /\ LET user == ctx[r].user
           auth == requireAuth(user)
       IN  IF auth.threw
           THEN Finish(r, DoneOp("myOrders", "none", user, 0, 0, "none", Null, FALSE,
                                 auth.error, Null))
           ELSE Finish(r, DoneOp("myOrders", "none", user, 2, 0, "none", Null, FALSE,
                                 "none", findByUser(auth.user.userId)))
    /\ UNCHANGED orders

\* orderResolvers.Mutation.updateOrderStatus, up to the await of orderDAO.update
Mutation_updateOrderStatus(r, id, status) ==
    /\ CanCall(r)
    /\ LET user == ctx[r].user
           auth == requireAuth(user)
           order == findById(id)
           Fail(reads, guard, owner, error) ==
               Finish(r, DoneOp("updateOrderStatus", id, user, reads, 0, guard, owner,
                                FALSE, error, Null))
       IN  IF auth.threw THEN Fail(0, "none", Null, auth.error)
           ELSE IF order = Null THEN Fail(1, "none", Null, "Order not found")
           ELSE IF ~auth.user.isAdmin /\ order.user_id # auth.user.userId
           THEN Fail(1, "inline", order.user_id, AccessDenied)
           ELSE IF \A i \in 1..Len(validStatuses) : validStatuses[i] # toLowerCase(status)
           THEN Finish(r, DoneOp("updateOrderStatus", id, user, 1, 0, "inline",
                                 order.user_id, TRUE, "Invalid order status", Null))
           ELSE /\ op' = [op EXCEPT ![r] =
                          AwaitUpdate("updateOrderStatus", id, user, "inline",
                                      order.user_id, toLowerCase(status))]
                /\ nOps' = nOps + 1
                /\ UNCHANGED <<ctx, nContexts, loadVars, cacheVars, apqVars, pageVars, appVars>>
    /\ UNCHANGED orders

\* orderResolvers.Mutation.cancelOrder, up to the await of orderDAO.update
Mutation_cancelOrder(r, id) ==
    /\ CanCall(r)
    /\ LET user == ctx[r].user
           auth == requireAuth(user)
           order == findById(id)
           Fail(reads, guard, owner, passed, error) ==
               Finish(r, DoneOp("cancelOrder", id, user, reads, 0, guard, owner,
                                passed, error, Null))
       IN  IF auth.threw THEN Fail(0, "none", Null, FALSE, auth.error)
           ELSE IF order = Null THEN Fail(1, "none", Null, FALSE, "Order not found")
           ELSE LET own == requireOwnership(user, order.user_id)
                IN  IF own.threw
                    THEN Fail(1, "requireOwnership", order.user_id, FALSE, own.error)
                    ELSE IF order.status = "cancelled"
                    THEN Fail(1, "requireOwnership", order.user_id, TRUE,
                              "Order is already cancelled")
                    ELSE IF order.status = "delivered"
                    THEN Fail(1, "requireOwnership", order.user_id, TRUE,
                              "Cannot cancel delivered order")
                    ELSE /\ op' = [op EXCEPT ![r] =
                                   AwaitUpdate("cancelOrder", id, user, "requireOwnership",
                                               order.user_id, "cancelled")]
                         /\ nOps' = nOps + 1
                         /\ UNCHANGED <<ctx, nContexts, loadVars, cacheVars, apqVars, pageVars, appVars>>
    /\ UNCHANGED orders

\* OrderDAO.update(id, {status}) and the rest of the mutation that awaited it
OrderDAO_update(r) ==
    /\ op[r].pc = "update"
    /\ LET id == op[r].id
           updatedOrder == IF orders[id] = NoOrder THEN Null
                           ELSE [orders[id] EXCEPT !.status = op[r].status]
       IN  /\ orders' = IF updatedOrder = Null THEN orders
                        ELSE [orders EXCEPT ![id] = updatedOrder]
           /\ op' = [op EXCEPT ![r] =
                 DoneOp(op[r].name, id, op[r].user, 1, 1, op[r].guard, op[r].owner, TRUE,
                        IF updatedOrder # Null THEN "none"
                        ELSE IF op[r].name = "cancelOrder" THEN "Failed to cancel order"
                        ELSE "Failed to update order status",
                        IF updatedOrder # Null THEN transformOrder(updatedOrder)
                        ELSE Null)]
    /\ UNCHANGED <<ctx, nContexts, nOps, loadVars, cacheVars, apqVars, pageVars, appVars>>

----------------------------------------------------------------------------
(* Cache service *)

Hashes == {"h1", "h2"}

\* Query bodies a client may send: GraphQL documents, so never the empty string
Bodies == {"query A", "query B"}

NoEntry == [absent |-> TRUE]

\* `persisted_query:${hash}`
PersistedQueryKey(hash) == <<"persisted_query", hash>>

\* cacheKeys.product(id)
ProductKey(id) == <<"product", id>>

CacheKeys == {PersistedQueryKey(h) : h \in Hashes} \cup {ProductKey("p1")}

\* Patterns handed to delPattern: `${prefix}:*`
Patterns == {"persisted_query", "product", "cart"}

\* The guard every CacheService operation starts with
CacheUnavailable == client = "null" \/ ~isConnected

\* A call on the real client throws when the server cannot be reached
ClientThrows == client = "real" /\ ~redisUp

\* The reply of one client command: it threw, or it returned `value` and
\* left the server holding `redis`.  The mock client installed by a failed
\* connect() answers every command without storing anything.
Reply(threw, value, after) == [threw |-> threw, value |-> value, redis |-> after]

\* client.get(key)
Client_get(key) ==
    IF client = "mock" THEN Reply(FALSE, NoEntry, redis)
    ELSE IF ClientThrows THEN Reply(TRUE, NoEntry, redis)
    ELSE Reply(FALSE, redis[key], redis)

\* client.setEx(key, ttlSeconds, value) / client.set(key, value)
Client_setEx(key, value) ==
    IF client = "mock" THEN Reply(FALSE, TRUE, redis)
    ELSE IF ClientThrows THEN Reply(TRUE, FALSE, redis)
    ELSE Reply(FALSE, TRUE, [redis EXCEPT ![key] = value])

\* client.del(keys)
Client_del(keys) ==
    IF client = "mock" THEN Reply(FALSE, TRUE, redis)
    ELSE IF ClientThrows THEN Reply(TRUE, FALSE, redis)
    ELSE Reply(FALSE, TRUE, [k \in CacheKeys |-> IF k \in keys THEN NoEntry ELSE redis[k]])

\* client.keys(pattern): the keys held under the pattern's prefix
Client_keys(pattern) ==
    IF client = "mock" THEN {}
    ELSE {k \in CacheKeys : k[1] = pattern /\ redis[k] # NoEntry}

\* client.exists(key) = 1
Client_exists(key) ==
    IF client = "mock" THEN Reply(FALSE, FALSE, redis)
    ELSE IF ClientThrows THEN Reply(TRUE, FALSE, redis)
    ELSE Reply(FALSE, redis[key] # NoEntry, redis)

CacheService_get_nocatch(key) ==
    IF CacheUnavailable THEN Reply(FALSE, NoEntry, redis) ELSE Client_get(key)

\* CacheService.get(key): the stored string, or null (NoEntry)
CacheService_get(key) ==
    IF CacheUnavailable THEN Reply(FALSE, NoEntry, redis)
    ELSE LET reply == Client_get(key)
         IN  IF reply.threw THEN Reply(FALSE, NoEntry, redis) ELSE reply

\* CacheService.set(key, value, ttlSeconds): true when the client stored it
CacheService_set(key, value) ==
    IF CacheUnavailable THEN Reply(FALSE, FALSE, redis)
    ELSE LET reply == Client_setEx(key, value)
         IN  IF reply.threw THEN Reply(FALSE, FALSE, redis) ELSE reply

\* CacheService.del(key)
CacheService_del(key) ==
    IF CacheUnavailable THEN Reply(FALSE, FALSE, redis)
    ELSE LET reply == Client_del({key})
         IN  IF reply.threw THEN Reply(FALSE, FALSE, redis) ELSE reply

\* CacheService.delPattern(pattern): keys(pattern), then del(keys) if any
CacheService_delPattern(pattern) ==
    IF CacheUnavailable THEN Reply(FALSE, FALSE, redis)
    ELSE IF ClientThrows THEN Reply(FALSE, FALSE, redis)
    ELSE LET keys == Client_keys(pattern)
         IN  IF keys # {} THEN Client_del(keys) ELSE Reply(FALSE, TRUE, redis)

\* CacheService.exists(key)
CacheService_exists(key) ==
    IF CacheUnavailable THEN Reply(FALSE, FALSE, redis)
    ELSE LET reply == Client_exists(key)
         IN  IF reply.threw THEN Reply(FALSE, FALSE, redis) ELSE reply

NoCall == [op |-> "none"]

\* CacheService.connect(): the real client, or the mock client when connecting fails
CacheService_connect ==
    /\ client = "null"
    /\ client' = IF redisUp THEN "real" ELSE "mock"
    /\ isConnected' = TRUE
    /\ UNCHANGED <<redisUp, redis, lastCache>>

\* client.on('error') / client.on('disconnect'): the handlers stay on the
\* client createClient() returned, also after a failed connect()
Client_onError ==
    /\ client # "null" /\ ~redisUp /\ isConnected
    /\ isConnected' = FALSE
    /\ UNCHANGED <<client, redisUp, redis, lastCache>>

\* client.on('connect'), after the client has reconnected
Client_onConnect ==
    /\ client # "null" /\ redisUp /\ ~isConnected
    /\ isConnected' = TRUE
    /\ UNCHANGED <<client, redisUp, redis, lastCache>>

\* The server becomes unreachable, or reachable again
RedisOutage ==
    /\ redisUp' = ~redisUp
    /\ UNCHANGED <<client, isConnected, redis, lastCache>>

\* A key set with a TTL of 86400 seconds expires
RedisExpire(key) ==
    /\ redis[key] # NoEntry
    /\ redis' = [redis EXCEPT ![key] = NoEntry]
    /\ UNCHANGED <<client, isConnected, redisUp, lastCache>>

\* The values callers cache
CacheValues == {[json |-> [query |-> b, hash |-> "h1"]] : b \in Bodies}

\* Whether the cache is degraded: no client, the mock client, marked
\* disconnected, or a client whose every call throws
Degraded == client # "real" \/ ~isConnected \/ ~redisUp

\* One call of a cacheService operation by a resolver or DAO
CacheCall(opName, key, reply) ==
    /\ lastCache' = [op |-> opName, key |-> key, threw |-> reply.threw,
                     value |-> reply.value, degraded |-> Degraded,
                     client |-> client,
                     prev |-> IF lastCache = NoCall THEN <<"none", "none">>
                              ELSE <<lastCache.op, lastCache.key>>]
    /\ redis' = reply.redis
    /\ UNCHANGED <<client, isConnected, redisUp>>

Cache_get(key) == CacheCall("get", key, CacheService_get(key))

Cache_set(key, value) == CacheCall("set", key, CacheService_set(key, value))

Cache_del(key) == CacheCall("del", key, CacheService_del(key))

Cache_delPattern(pattern) ==
    CacheCall("delPattern", pattern, CacheService_delPattern(pattern))

Cache_exists(key) == CacheCall("exists", key, CacheService_exists(key))

----------------------------------------------------------------------------
(* Persisted queries *)

NoQuery == [absent |-> TRUE]

NullString == "null"

Undefined == "undefined"

\* JSON.stringify / JSON.parse of a PersistedQuery
JSON_stringify(persistedQuery) == [json |-> persistedQuery]

JSON_parse(text) == text.json

addQuery_sharedOnly(hash, query) == queries

addQuery_ifAbsent(hash, query) ==
    IF queries[hash] # NoQuery THEN queries
    ELSE [queries EXCEPT ![hash] = [query |-> query, hash |-> hash]]

\* PersistedQueryStore.addQuery: the map afterwards
addQuery(hash, query) ==
    [queries EXCEPT ![hash] = [query |-> query, hash |-> hash]]

getQuery_noBackfill(hash) ==
    IF queries[hash] # NoQuery
    THEN [query |-> queries[hash].query, queries |-> queries, sharedCalls |-> 0]
    ELSE IF ~useRedis
    THEN [query |-> NullString, queries |-> queries, sharedCalls |-> 0]
    ELSE LET cachedQuery == CacheService_get(PersistedQueryKey(hash))
         IN  IF ~cachedQuery.threw /\ cachedQuery.value # NoEntry
             THEN [query |-> JSON_parse(cachedQuery.value).query,
                   queries |-> queries, sharedCalls |-> 1]
             ELSE [query |-> NullString, queries |-> queries, sharedCalls |-> 1]

\* PersistedQueryStore.getQuery: the body or null, the map afterwards, and
\* the number of cacheService.get calls it made
getQuery(hash) ==
    IF queries[hash] # NoQuery
    THEN [query |-> queries[hash].query, queries |-> queries, sharedCalls |-> 0]
    ELSE IF ~useRedis
    THEN [query |-> NullString, queries |-> queries, sharedCalls |-> 0]
    ELSE LET cachedQuery == CacheService_get(PersistedQueryKey(hash))
         IN  IF ~cachedQuery.threw /\ cachedQuery.value # NoEntry
             THEN [query |-> JSON_parse(cachedQuery.value).query,
                   queries |-> [queries EXCEPT ![hash] = JSON_parse(cachedQuery.value)],
                   sharedCalls |-> 1]
             ELSE [query |-> NullString, queries |-> queries, sharedCalls |-> 1]

Unregistered == "unregistered"

Stale == "removed, shared copy kept"

\* The record of one PersistedQueryStore call: what a lookup of the hash
\* gave before and gives after it, and what the call itself did
StoreCall(opName, hash, query, before, got) ==
    [op |-> opName, hash |-> hash, query |-> query, before |-> before,
     memoryHit |-> queries[hash] # NoQuery,
     sharedCalls |-> got.sharedCalls, result |-> got.query,
     useRedis |-> useRedis, backfilled |-> got.queries[hash],
     sharedDown |-> CacheUnavailable \/ ClientThrows,
     sharedReply |-> CacheService_get(PersistedQueryKey(hash)).value]

\* PersistedQueryStore.addQuery(hash, query)
PersistedQueryStore_addQuery(hash, query) ==
    /\ queries' = addQuery(hash, query)
    /\ redis' = IF useRedis
                THEN CacheService_set(PersistedQueryKey(hash),
                                      JSON_stringify([query |-> query, hash |-> hash])).redis
                ELSE redis
    /\ registered' = [registered EXCEPT ![hash] = query]
    /\ lastStore' = StoreCall("addQuery", hash, query, getQuery(hash).query,
                              [query |-> NullString, sharedCalls |-> 0, queries |-> queries'])
    /\ UNCHANGED <<useRedis, client, isConnected, redisUp, lastCache>>

\* APQManager.registerQuery(query, hash) -> PersistedQueryStore.addQuery(hash, query)
registerQuery(query, hash) ==
    /\ PersistedQueryStore_addQuery(hash, query)
    /\ UNCHANGED lastApq

\* PersistedQueryStore.removeQuery(hash)
removeQuery(hash) ==
    /\ queries' = [queries EXCEPT ![hash] = NoQuery]
    /\ redis' = IF useRedis THEN CacheService_del(PersistedQueryKey(hash)).redis ELSE redis
    /\ registered' = [registered EXCEPT ![hash] =
          IF redis'[PersistedQueryKey(hash)] # NoEntry THEN Stale ELSE Unregistered]
    /\ lastStore' = StoreCall("removeQuery", hash, Undefined, getQuery(hash).query,
                              [query |-> NullString, sharedCalls |-> 0, queries |-> queries'])
    /\ UNCHANGED <<useRedis, lastApq, client, isConnected, redisUp, lastCache>>

Requests_apq ==
    [query : Bodies \cup {Undefined}, sha256Hash : Hashes \cup {Undefined}]

PersistedQueryNotFound(hash) == <<"Persisted query not found: ", hash>>

\* APQManager.handleRequest(request).  The branch for a hash is tested first;
\* the branch for a body together with a hash ("Regular query with hash")
\* comes after it and tests the hash again.
handleRequest(request) ==
    LET hash == request.sha256Hash
        query == request.query
        Outcome(kind, q, error) ==
            [request |-> request, kind |-> kind, query |-> q, error |-> error,
             registeredBefore |-> IF hash = Undefined THEN Unregistered
                                  ELSE registered[hash]]
    IN  IF hash # Undefined
        THEN LET got == getQuery(hash)
             IN  /\ queries' = got.queries
                 /\ lastStore' = StoreCall("getQuery", hash, Undefined, got.query, got)
                 /\ lastApq' =
                       IF got.query # NullString /\ got.query # ""
                       THEN Outcome("returned", got.query, <<>>)
                       ELSE Outcome("threw", Undefined, PersistedQueryNotFound(hash))
                 /\ UNCHANGED <<useRedis, registered, cacheVars>>
        ELSE IF query # Undefined /\ hash # Undefined
        THEN /\ PersistedQueryStore_addQuery(hash, query)
             /\ lastApq' = Outcome("registered", query, <<>>)
        ELSE /\ lastApq' = Outcome("returned", query, <<>>)
             /\ UNCHANGED <<queries, useRedis, registered, lastStore, cacheVars>>

----------------------------------------------------------------------------
(* Cursor pagination: strings are sequences of characters *)

\* A JavaScript number: an integer or NaN
NaN == [nan |-> TRUE, n |-> 0]

Num(n) == [nan |-> FALSE, n |-> n]

Digits == <<"0", "1", "2", "3", "4", "5", "6", "7", "8", "9">>

DigitValue(c) == CHOOSE d \in 0..9 : Digits[d + 1] = c

IsDigit(c) == \E d \in 0..9 : Digits[d + 1] = c

RECURSIVE Decimal(_)
Decimal(n) ==
    IF n < 10 THEN <<Digits[n + 1]>> ELSE Decimal(n \div 10) \o <<Digits[(n % 10) + 1]>>

\* Number.prototype.toString()
NumberToString(x) ==
    IF x.nan THEN <<"N", "a", "N">>
    ELSE IF x.n < 0 THEN <<"-">> \o Decimal(-x.n)
    ELSE Decimal(x.n)

\* The characters of the modelled strings and their UTF-8 (ASCII) bytes
CharCodes ==
    [c \in {"0", "1", "2", "3", "4", "5", "6", "7", "8", "9",
            "-", "+", " ", "!", "N", "a", "b", "c", "x"} |->
        CASE c = "-" -> 45 [] c = "+" -> 43 [] c = " " -> 32 [] c = "!" -> 33
          [] c = "N" -> 78 [] c = "a" -> 97 [] c = "b" -> 98 [] c = "c" -> 99
          [] c = "x" -> 120
          [] OTHER -> 48 + DigitValue(c)]

\* Stands for every character that is not in CharCodes
OtherChar == "?"

\* Buffer.from(str): the UTF-8 bytes of a string
Utf8Bytes(str) == [i \in 1..Len(str) |-> CharCodes[str[i]]]

\* buffer.toString('utf-8')
Utf8String(bytes) ==
    [i \in 1..Len(bytes) |->
        IF \E c \in DOMAIN CharCodes : CharCodes[c] = bytes[i]
        THEN CHOOSE c \in DOMAIN CharCodes : CharCodes[c] = bytes[i]
        ELSE OtherChar]

Base64Alphabet ==
    <<"A", "B", "C", "D", "E", "F", "G", "H", "I", "J", "K", "L", "M",
      "N", "O", "P", "Q", "R", "S", "T", "U", "V", "W", "X", "Y", "Z",
      "a", "b", "c", "d", "e", "f", "g", "h", "i", "j", "k", "l", "m",
      "n", "o", "p", "q", "r", "s", "t", "u", "v", "w", "x", "y", "z",
      "0", "1", "2", "3", "4", "5", "6", "7", "8", "9", "+", "/">>

\* buffer.toString('base64')
RECURSIVE Base64Encode(_)
Base64Encode(bytes) ==
    LET B(s) == Base64Alphabet[s + 1]
    IN  IF Len(bytes) = 0 THEN <<>>
        ELSE IF Len(bytes) = 1
        THEN <<B(bytes[1] \div 4), B((bytes[1] % 4) * 16), "=", "=">>
        ELSE IF Len(bytes) = 2
        THEN <<B(bytes[1] \div 4),
               B((bytes[1] % 4) * 16 + bytes[2] \div 16),
               B((bytes[2] % 16) * 4), "=">>
        ELSE <<B(bytes[1] \div 4),
               B((bytes[1] % 4) * 16 + bytes[2] \div 16),
               B((bytes[2] % 16) * 4 + bytes[3] \div 64),
               B(bytes[3] % 64)>> \o Base64Encode(SubSeq(bytes, 4, Len(bytes)))

\* The value of a base64 character; "-" and "_" are read as "+" and "/"
Unbase64(c) ==
    IF c = "-" THEN 62
    ELSE IF c = "_" THEN 63
    ELSE CHOOSE s \in 0..63 : Base64Alphabet[s + 1] = c

IsBase64(c) == c \in {"-", "_"} \/ \E s \in 0..63 : Base64Alphabet[s + 1] = c

\* The base64 characters of a string: the decoder skips every other character
RECURSIVE Sextets(_)
Sextets(str) ==
    IF Len(str) = 0 THEN <<>>
    ELSE (IF IsBase64(Head(str)) THEN <<Unbase64(Head(str))>> ELSE <<>>)
         \o Sextets(Tail(str))

RECURSIVE SextetsToBytes(_)
SextetsToBytes(s) ==
    IF Len(s) < 2 THEN <<>>
    ELSE IF Len(s) = 2 THEN <<s[1] * 4 + s[2] \div 16>>
    ELSE IF Len(s) = 3
    THEN <<s[1] * 4 + s[2] \div 16, (s[2] % 16) * 16 + s[3] \div 4>>
    ELSE <<s[1] * 4 + s[2] \div 16, (s[2] % 16) * 16 + s[3] \div 4,
           (s[3] % 4) * 64 + s[4]>> \o SextetsToBytes(SubSeq(s, 5, Len(s)))

\* Buffer.from(cursor, 'base64')
Base64Decode(str) == SextetsToBytes(Sextets(str))

encodeCursor_raw(id) == id

\* encodeCursor(id) = Buffer.from(id).toString('base64')
encodeCursor(id) == Base64Encode(Utf8Bytes(id))

\* decodeCursor(cursor) = Buffer.from(cursor, 'base64').toString('utf-8')
decodeCursor(cursor) == Utf8String(Base64Decode(cursor))

RECURSIVE SkipSpaces(_)
SkipSpaces(str) ==
    IF Len(str) > 0 /\ Head(str) = " " THEN SkipSpaces(Tail(str)) ELSE str

\* The value of the longest prefix of decimal digits, as acc * 10^k + prefix
RECURSIVE DigitsPrefix(_, _)
DigitsPrefix(str, acc) ==
    IF Len(str) > 0 /\ IsDigit(Head(str))
    THEN DigitsPrefix(Tail(str), acc * 10 + DigitValue(Head(str)))
    ELSE acc

\* parseInt(string): white space, an optional sign, then decimal digits;
\* NaN when no digit follows
parseInt(string) ==
    LET t == SkipSpaces(string)
        signed == Len(t) > 0 /\ Head(t) \in {"-", "+"}
        body == IF signed THEN Tail(t) ELSE t
    IN  IF Len(body) = 0 \/ ~IsDigit(Head(body)) THEN NaN
        ELSE IF signed /\ Head(t) = "-" THEN Num(-DigitsPrefix(body, 0))
        ELSE Num(DigitsPrefix(body, 0))

----------------------------------------------------------------------------
(* Cursor pagination: the list resolvers.  An optional argument is <<>>     *)
(* when absent and <<value>> when given.                                    *)

Min(a, b) == IF a < b THEN a ELSE b

\* The rows a list query matches, in the order of its ORDER BY
Rows(rowCount) == [i \in 1..rowCount |-> i]

TooSmall == "Number must be greater than 0"

TooBig == "Number must be less than or equal to 100"

\* z.number().positive().max(100).optional()
PositiveMax100(arg) ==
    IF arg = <<>> THEN <<>>
    ELSE IF arg[1] <= 0 THEN <<TooSmall>>
    ELSE IF arg[1] > 100 THEN <<TooBig>>
    ELSE <<>>

\* CursorInputSchema.parse(pagination): the messages of the issues it raises
CursorInputSchema(pagination) ==
    PositiveMax100(pagination.first) \o PositiveMax100(pagination.last)

\* `Validation error: ${error.errors.map(e => e.message).join(', ')}`
ValidationError(messages) == <<"Validation error: ">> \o messages

DatabaseError == <<"database error">>

\* Math.min(validatedPagination.first || validatedPagination.last || 20, 100)
Limit(pagination) ==
    Min(IF pagination.first # <<>> /\ pagination.first[1] # 0 THEN pagination.first[1]
        ELSE IF pagination.last # <<>> /\ pagination.last[1] # 0 THEN pagination.last[1]
        ELSE 20,
        100)

\* validatedPagination.after ? parseInt(decodeCursor(validatedPagination.after)) : 0
Offset(pagination) ==
    IF pagination.after # <<>> /\ pagination.after[1] # <<>>
    THEN parseInt(decodeCursor(pagination.after[1]))
    ELSE Num(0)

\* productDAO.searchProducts / orderDAO.findByUser: SELECT COUNT(*), then
\* SELECT ... OFFSET :offset ROWS FETCH NEXT :limit ROWS ONLY.  The database
\* rejects an offset that is not a number; a negative offset it rejects or
\* reads as 0, depending on the database.
SelectPage(rowCount, limit, offset, negativeIsZero) ==
    LET from == IF offset.n < 0 THEN 0 ELSE offset.n
    IN  IF offset.nan \/ (offset.n < 0 /\ ~negativeIsZero)
        THEN [threw |-> TRUE, rows |-> <<>>, totalCount |-> rowCount]
        ELSE [threw |-> FALSE,
              rows |-> SubSeq(Rows(rowCount), from + 1, Min(from + limit, rowCount)),
              totalCount |-> rowCount]

\* rows.map((row, index) => ({node, cursor: encodeCursor((offset + index).toString())}))
Edges(rows, offset) ==
    [i \in 1..Len(rows) |->
        [node |-> rows[i],
         cursor |-> encodeCursor(NumberToString(
                        IF offset.nan THEN NaN ELSE Num(offset.n + (i - 1))))]]

hasNextPage_inclusive(offset, limit, totalCount) ==
    ~offset.nan /\ offset.n + limit <= totalCount

\* offset + limit < totalCount
hasNextPage(offset, limit, totalCount) == ~offset.nan /\ offset.n + limit < totalCount

\* offset > 0
hasPreviousPage(offset) == ~offset.nan /\ offset.n > 0

NullCursor == <<"null">>

endCursor_start(edges) == IF Len(edges) > 0 THEN edges[1].cursor ELSE NullCursor

\* edges.length > 0 ? edges[0]?.cursor : null
startCursor(edges) == IF Len(edges) > 0 THEN edges[1].cursor ELSE NullCursor

\* edges.length > 0 ? edges[edges.length - 1]?.cursor : null
endCursor(edges) == IF Len(edges) > 0 THEN edges[Len(edges)].cursor ELSE NullCursor

NoPageInfo ==
    [hasNextPage |-> FALSE, hasPreviousPage |-> FALSE,
     startCursor |-> NullCursor, endCursor |-> NullCursor]

\* A list query that threw, after `scans` statements sent to the database
PageThrew(name, pagination, rowCount, error, limit, offset, scans) ==
    [name |-> name, pagination |-> pagination, rowCount |-> rowCount,
     kind |-> "threw", error |-> error, limit |-> limit, offset |-> offset,
     scans |-> scans, edges |-> <<>>, pageInfo |-> NoPageInfo, totalCount |-> 0]

\* The body the three list resolvers share: validate, compute limit and
\* offset, fetch, build the edges and the page info
ListQuery(name, pagination, rowCount, negativeIsZero) ==
    LET issues == CursorInputSchema(pagination)
        limit == Limit(pagination)
        offset == Offset(pagination)
        selected == SelectPage(rowCount, limit, offset, negativeIsZero)
        edges == Edges(selected.rows, offset)
    IN  IF issues # <<>>
        THEN PageThrew(name, pagination, rowCount, ValidationError(issues), 0, Num(0), 0)
        ELSE IF selected.threw
        THEN PageThrew(name, pagination, rowCount, DatabaseError, limit, offset, 2)
        ELSE [name |-> name, pagination |-> pagination, rowCount |-> rowCount,
              kind |-> "returned", error |-> <<>>, limit |-> limit, offset |-> offset,
              scans |-> 2, edges |-> edges,
              pageInfo |-> [hasNextPage |-> hasNextPage(offset, limit, selected.totalCount),
                            hasPreviousPage |-> hasPreviousPage(offset),
                            startCursor |-> startCursor(edges),
                            endCursor |-> endCursor(edges)],
              totalCount |-> selected.totalCount]

\* productResolvers.Query.products
Query_products(pagination, rowCount, negativeIsZero) ==
    /\ page = NoCall
    /\ page' = ListQuery("products", pagination, rowCount, negativeIsZero)
    /\ UNCHANGED <<reqVars, cacheVars, apqVars, appVars>>

\* productResolvers.Query.searchProducts
Query_searchProducts(pagination, rowCount, negativeIsZero) ==
    /\ page = NoCall
    /\ page' = ListQuery("searchProducts", pagination, rowCount, negativeIsZero)
    /\ UNCHANGED <<reqVars, cacheVars, apqVars, appVars>>

\* orderResolvers.Query.myOrders with a pagination argument: requireAuth first
Query_myOrdersPage(user, pagination, rowCount, negativeIsZero) ==
    /\ page = NoCall
    /\ page' = IF requireAuth(user).threw
               THEN PageThrew("myOrders", pagination, rowCount,
                              <<requireAuth(user).error>>, 0, Num(0), 0)
               ELSE ListQuery("myOrders", pagination, rowCount, negativeIsZero)
    /\ UNCHANGED <<reqVars, cacheVars, apqVars, appVars>>

\* The page is sent to the client and the request ends
SendPage ==
    /\ page # NoCall
    /\ page' = NoCall
    /\ UNCHANGED <<reqVars, cacheVars, apqVars, appVars>>

\* The offsets whose cursors a client holds
Offsets == {0, 2, 10, 20, 25, 110}

\* The `after` strings a client sends: cursors it was given, the cursor
\* text of a negative number and of a word, text that is not base64, a bare
\* number, and the empty string
Cursors ==
    {encodeCursor(NumberToString(Num(o))) : o \in Offsets}
    \cup {encodeCursor(<<"-", "5">>), encodeCursor(<<"a", "b", "c">>),
          <<"!", "!", "!">>, <<"1", "2">>, <<>>}

Paginations ==
    [first : {<<>>, <<0>>, <<1>>, <<2>>, <<10>>, <<100>>, <<150>>},
     last : {<<>>, <<5>>, <<101>>},
     after : {<<>>} \cup {<<c>> : c \in Cursors}]

RowCounts == {0, 3, 25, 120}

----------------------------------------------------------------------------
(* Registration and login: claims C24, C25 *)

\* Text is a sequence of characters
Apostrophe == "'"

\* escapeString(str): str.replace(/'/g, "''")
RECURSIVE escapeString(_)
escapeString(str) ==
    IF str = <<>> THEN <<>>
    ELSE IF Head(str) = Apostrophe
         THEN <<Apostrophe, Apostrophe>> \o escapeString(Tail(str))
         ELSE <<Head(str)>> \o escapeString(Tail(str))

\* z.string().email(): something@something
IsEmail(str) ==
    \E i \in 2..(Len(str) - 1) :
        /\ str[i] = "@"
        /\ \A j \in 1..Len(str) : j # i => str[j] # "@"

InvalidEmailFormat == "Invalid email format"

PasswordTooShort == "Password must be at least 8 characters"

PasswordRequired == "Password is required"

\* RegisterInputSchema.parse(input): the messages of the ZodError, none if valid
RegisterInputSchema(input) ==
    (IF IsEmail(input.email) THEN <<>> ELSE <<InvalidEmailFormat>>)
    \o (IF Len(input.password) >= 8 THEN <<>> ELSE <<PasswordTooShort>>)

\* LoginInputSchema.parse(input)
LoginInputSchema(input) ==
    (IF IsEmail(input.email) THEN <<>> ELSE <<InvalidEmailFormat>>)
    \o (IF Len(input.password) >= 1 THEN <<>> ELSE <<PasswordRequired>>)

\* authService.hashPassword: bcrypt.hash(password, 12)
hashPassword(password) == <<"$2a$12$", password>>

verifyPassword_any(password, hashedPassword) == TRUE

\* authService.verifyPassword: bcrypt.compare(password, hashedPassword)
verifyPassword(password, hashedPassword) == hashedPassword = hashPassword(password)

NoUser == [none |-> TRUE]

UserDAO_findByEmail_raw(users, email) ==
    IF \E u \in users : u.email = email
    THEN CHOOSE u \in users : u.email = email
    ELSE NoUser

\* UserDAO.findByEmail: SELECT * FROM users WHERE email = :email, bound to
\* escapeString(email)
UserDAO_findByEmail(users, email) ==
    IF \E u \in users : u.email = escapeString(email)
    THEN CHOOSE u \in users : u.email = escapeString(email)
    ELSE NoUser

\* uuidv4(): an id no row has
NewUuid(users) == <<"uuid", Cardinality(users)>>

\* UserDAO.registerUser: proc_register_user with the email bound to
\* escapeString(email); EMAIL_EXISTS if a row has that email, else the row
\* is inserted and committed.  `entered` and `password` keep what the user
\* typed; the table does not store them.
UserDAO_registerUser(users, userData) ==
    IF \E u \in users : u.email = escapeString(userData.email)
    THEN [success |-> FALSE, message |-> "EMAIL_EXISTS", users |-> users]
    ELSE [success |-> TRUE, message |-> "SUCCESS",
          users |-> users \cup {[id |-> userData.id,
                                 email |-> escapeString(userData.email),
                                 password_hash |-> userData.password_hash,
                                 entered |-> userData.email,
                                 password |-> userData.password]}]

\* UserDAO.create(userData): INSERT INTO users (...) RETURNING *; the
\* statement binds :email, :password_hash, ..., and users.email is NOT NULL,
\* so a record without an email is refused by the database
UserDAO_create(users, userData) ==
    IF "email" \in DOMAIN userData
    THEN [threw |-> FALSE,
          users |-> users \cup {[id |-> userData.id, email |-> userData.email,
                                 password_hash |-> userData.password_hash,
                                 entered |-> userData.email,
                                 password |-> <<>>]}]
    ELSE [threw |-> TRUE, users |-> users]

UserExists == "User with this email already exists"

InvalidCredentials == "Invalid email or password"

FailedToCreateUser == "Failed to create user"

NoCookie == "none"

NoTokens == [none |-> TRUE]

\* The outcome of a register/login call
AuthOutcome(call, input, acc, users, cookie, error, tokens) ==
    [users |-> users, cookie |-> cookie,
     last |-> [op |-> call, input |-> input, error |-> error, tokens |-> tokens,
               usersBefore |-> acc.users, cookieBefore |-> acc.cookie]]

\* Generate tokens, store the session, set the cookie, return the payload:
\* the tail shared by register and login
StartSession(call, input, acc, users, user) ==
    LET sessionId == <<"session", Cardinality(users)>>
        refreshToken == <<"refresh", user.id, sessionId>>
        accessToken == <<"access", user.id>>
        stored == UserDAO_create(users, [id |-> sessionId, user_id |-> user.id,
                                         refresh_token |-> refreshToken])
    IN  IF stored.threw
        THEN AuthOutcome(call, input, acc, stored.users, acc.cookie, DatabaseError, NoTokens)
        ELSE AuthOutcome(call, input, acc, stored.users, refreshToken, <<>>,
                         [accessToken |-> accessToken, refreshToken |-> refreshToken])

\* userResolvers.Mutation.register
Mutation_register(acc, input) ==
    LET issues == RegisterInputSchema(input)
        existingUser == UserDAO_findByEmail(acc.users, input.email)
        userId == NewUuid(acc.users)
        result == UserDAO_registerUser(acc.users,
                      [id |-> userId, email |-> input.email,
                       password_hash |-> hashPassword(input.password),
                       password |-> input.password])
    IN  IF issues # <<>>
        THEN AuthOutcome("register", input, acc, acc.users, acc.cookie,
                         ValidationError(issues), NoTokens)
        ELSE IF existingUser # NoUser
        THEN AuthOutcome("register", input, acc, acc.users, acc.cookie,
                         <<UserExists>>, NoTokens)
        ELSE IF ~result.success
        THEN AuthOutcome("register", input, acc, result.users, acc.cookie,
                         <<result.message>>, NoTokens)
        ELSE IF ~(\E u \in result.users : u.id = userId)
        THEN AuthOutcome("register", input, acc, result.users, acc.cookie,
                         <<FailedToCreateUser>>, NoTokens)
        ELSE StartSession("register", input, acc, result.users,
                          CHOOSE u \in result.users : u.id = userId)

\* userResolvers.Mutation.login
Mutation_login(acc, input) ==
    LET issues == LoginInputSchema(input)
        user == UserDAO_findByEmail(acc.users, input.email)
    IN  IF issues # <<>>
        THEN AuthOutcome("login", input, acc, acc.users, acc.cookie,
                         ValidationError(issues), NoTokens)
        ELSE IF user = NoUser
        THEN AuthOutcome("login", input, acc, acc.users, acc.cookie,
                         <<InvalidCredentials>>, NoTokens)
        ELSE IF ~verifyPassword(input.password, user.password_hash)
        THEN AuthOutcome("login", input, acc, acc.users, acc.cookie,
                         <<InvalidCredentials>>, NoTokens)
        ELSE StartSession("login", input, acc, acc.users, user)

\* Passwords typed into the forms
pwA == <<"p", "a", "s", "s", "w", "o", "r", "d">>

pwB == <<"p", "a", "s", "s", "w", "0", "r", "d">>

Passwords == {pwA, pwB, <<"p", "w">>}

\* E-mail addresses typed into the forms: a seeded user's, one with an
\* apostrophe, one nobody has, and one that is no address
Emails == {<<"j", "@", "x">>, <<"o", Apostrophe, "b", "@", "x">>,
           <<"n", "@", "x">>, <<"j", "x">>}

AuthInputs == [email : Emails, password : Passwords]

\* db/seed.sql: the users the database starts with
SeedUsers ==
    {[id |-> <<"seed", 1>>, email |-> <<"j", "@", "x">>,
      password_hash |-> hashPassword(pwA),
      entered |-> <<"j", "@", "x">>, password |-> pwA]}

InitAccounts == [users |-> SeedUsers, cookie |-> NoCookie, last |-> NoCall]

----------------------------------------------------------------------------
(* createOrder: claim C28 *)

\* createOrder calls made
MaxCheckouts == 2

NoProduct == [none |-> TRUE]

\* The products table as createOrder reads it: p1 for sale, two in stock;
\* p2 not active; p3 is no row
ProductDAO_findById(id) ==
    CASE id = "p1" -> [id |-> "p1", name |-> "p1", is_active |-> TRUE,
                       stock_quantity |-> 2, price |-> 10]
      [] id = "p2" -> [id |-> "p2", name |-> "p2", is_active |-> FALSE,
                       stock_quantity |-> 5, price |-> 7]
      [] OTHER -> NoProduct

QuantityTooSmall == "Quantity must be at least 1"

\* CreateOrderInputSchema.parse(input): items.min(1), quantity.int().min(1)
CreateOrderInputSchema(input) ==
    (IF Len(input.items) >= 1 THEN <<>> ELSE <<"At least one item is required">>)
    \o (IF \A i \in 1..Len(input.items) : input.items[i].quantity >= 1
        THEN <<>> ELSE <<QuantityTooSmall>>)

\* The first item the validation loop throws for, 0 if it accepts them all
FirstRejected(items) ==
    LET bad == {i \in 1..Len(items) :
                  LET product == ProductDAO_findById(items[i].productId)
                  IN  \/ product = NoProduct
                      \/ ~product.is_active
                      \/ product.stock_quantity < items[i].quantity}
    IN  IF bad = {} THEN 0 ELSE CHOOSE i \in bad : \A j \in bad : i <= j

\* The error the validation loop throws for item
ItemError(item) ==
    LET product == ProductDAO_findById(item.productId)
    IN  IF product = NoProduct THEN <<"Product not found: ", item.productId>>
        ELSE IF ~product.is_active THEN <<"Product is not available: ", product.name>>
        ELSE <<"Insufficient stock for product: ", product.name>>

\* orderItems.push({product_id, quantity, unit_price, total_price})
OrderItemsOf(items) ==
    [i \in 1..Len(items) |->
        [product_id |-> items[i].productId, quantity |-> items[i].quantity,
         unit_price |-> ProductDAO_findById(items[i].productId).price,
         total_price |-> ProductDAO_findById(items[i].productId).price * items[i].quantity]]

RECURSIVE TotalAmount(_)
TotalAmount(orderItems) ==
    IF orderItems = <<>> THEN 0
    ELSE Head(orderItems).total_price + TotalAmount(Tail(orderItems))

\* The outcome of a createOrder call
CheckoutOutcome(state, orderId, items, error, orderRows, itemRows) ==
    [orders |-> orderRows, order_items |-> itemRows, calls |-> state.calls + 1,
     last |-> [op |-> "createOrder", orderId |-> orderId, nItems |-> Len(items),
               error |-> error]]

\* orderResolvers.Mutation.createOrder.  Each insert is a statement of its
\* own, committed when it returns (autoCommit); failAt is the statement the
\* database refuses: 1 the order row, k + 1 the k-th item, 0 none.
Mutation_createOrder(state, user, input, failAt) ==
    LET auth == requireAuth(user)
        issues == CreateOrderInputSchema(input)
        rejected == FirstRejected(input.items)
        orderItems == OrderItemsOf(input.items)
        orderId == <<"order", state.calls + 1>>
        order == [id |-> orderId, user_id |-> auth.user.userId, status |-> "pending",
                  total_amount |-> TotalAmount(orderItems)]
        \* orderDAO.createOrderItem for the items before the refused one
        created == IF failAt >= 2 THEN failAt - 2 ELSE Len(orderItems)
        itemRows == {[order_id |-> orderId, line |-> i,
                      product_id |-> orderItems[i].product_id,
                      quantity |-> orderItems[i].quantity] : i \in 1..created}
    IN  IF auth.threw
        THEN CheckoutOutcome(state, orderId, input.items, <<auth.error>>,
                             state.orders, state.order_items)
        ELSE IF issues # <<>>
        THEN CheckoutOutcome(state, orderId, input.items, ValidationError(issues),
                             state.orders, state.order_items)
        ELSE IF rejected # 0
        THEN CheckoutOutcome(state, orderId, input.items, ItemError(input.items[rejected]),
                             state.orders, state.order_items)
        ELSE IF failAt = 1
        THEN CheckoutOutcome(state, orderId, input.items, DatabaseError,
                             state.orders, state.order_items)
        ELSE IF failAt >= 2 /\ failAt <= Len(orderItems) + 1
        THEN CheckoutOutcome(state, orderId, input.items, DatabaseError,
                             state.orders \cup {order}, state.order_items \cup itemRows)
        ELSE CheckoutOutcome(state, orderId, input.items, <<>>,
                             state.orders \cup {order}, state.order_items \cup itemRows)

\* The items a client puts into an order
OrderItemInputs == [productId : {"p1", "p2", "p3"}, quantity : {0, 1, 3}]

CreateOrderInputs ==
    [items : {<<>>} \cup {<<a>> : a \in OrderItemInputs}
                    \cup {<<a, b>> : a \in {[productId |-> "p1", quantity |-> 1],
                                            [productId |-> "p1", quantity |-> 2]},
                                     b \in OrderItemInputs}]

InitCheckout == [orders |-> {}, order_items |-> {}, calls |-> 0, last |-> NoCall]

----------------------------------------------------------------------------
(* Cart mutations: claim C29 *)

CartItemIds == {"c1", "c2", "c3"}

NoCartItem == [absent |-> TRUE]

\* cart_items: c1 is in u1's cart, c2 in u2's, c3 is no row
InitCartItems ==
    [id \in CartItemIds |->
        CASE id = "c1" -> [id |-> "c1", user_id |-> "u1", product_id |-> "p1", quantity |-> 1]
          [] id = "c2" -> [id |-> "c2", user_id |-> "u2", product_id |-> "p1", quantity |-> 2]
          [] OTHER -> NoCartItem]

InitCart == [items |-> InitCartItems, last |-> NoCall]

CartItemNotFound == "Cart item not found"

\* UserDAO.removeFromCart: DELETE FROM cart_items WHERE id = :cartItemId;
\* rowsAffected > 0
UserDAO_removeFromCart(items, cartItemId) ==
    [success |-> items[cartItemId] # NoCartItem,
     items |-> [items EXCEPT ![cartItemId] = NoCartItem]]

\* UserDAO.updateCartItem: UPDATE cart_items SET quantity = :quantity
\* WHERE id = :cartItemId RETURNING *; rows[0] || null
UserDAO_updateCartItem(items, cartItemId, quantity) ==
    IF items[cartItemId] = NoCartItem
    THEN [cartItem |-> Null, items |-> items]
    ELSE [cartItem |-> [items[cartItemId] EXCEPT !.quantity = quantity],
          items |-> [items EXCEPT ![cartItemId].quantity = quantity]]

\* The outcome of a cart mutation
CartOutcome(state, call, user, cartItemId, error, items) ==
    [items |-> items,
     last |-> [op |-> call, user |-> user, cartItemId |-> cartItemId,
               error |-> error, before |-> state.items]]

\* userResolvers.Mutation.removeFromCart
Mutation_removeFromCart(state, user, cartItemId) ==
    LET auth == requireAuth(user)
        removed == UserDAO_removeFromCart(state.items, cartItemId)
    IN  IF auth.threw
        THEN CartOutcome(state, "removeFromCart", user, cartItemId,
                         <<auth.error>>, state.items)
        ELSE IF ~removed.success
        THEN CartOutcome(state, "removeFromCart", user, cartItemId,
                         <<CartItemNotFound>>, removed.items)
        ELSE CartOutcome(state, "removeFromCart", user, cartItemId, <<>>, removed.items)

\* userResolvers.Mutation.updateCartItem
Mutation_updateCartItem(state, user, cartItemId, quantity) ==
    LET auth == requireAuth(user)
        updated == UserDAO_updateCartItem(state.items, cartItemId, quantity)
    IN  IF auth.threw
        THEN CartOutcome(state, "updateCartItem", user, cartItemId,
                         <<auth.error>>, state.items)
        ELSE IF quantity < 1
        THEN CartOutcome(state, "updateCartItem", user, cartItemId,
                         ValidationError(<<"Number must be greater than or equal to 1">>),
                         state.items)
        ELSE IF updated.cartItem = Null
        THEN CartOutcome(state, "updateCartItem", user, cartItemId,
                         <<CartItemNotFound>>, updated.items)
        ELSE CartOutcome(state, "updateCartItem", user, cartItemId, <<>>, updated.items)

----------------------------------------------------------------------------
(* Frontend cart reducer: claim C30 *)

MaxCartItems == 3

\* initialState of CartContext
initialState == [items |-> <<>>, totalItems |-> 0, totalPrice |-> 0, isLoading |-> FALSE]

\* payload.reduce((sum, item) => sum + item.quantity, 0)
RECURSIVE SumQuantity(_)
SumQuantity(items) ==
    IF items = <<>> THEN 0 ELSE items[1].quantity + SumQuantity(Tail(items))

\* payload.reduce((sum, item) => sum + item.product.price * item.quantity, 0)
RECURSIVE SumPrice(_)
SumPrice(items) ==
    IF items = <<>> THEN 0
    ELSE items[1].product.price * items[1].quantity + SumPrice(Tail(items))

\* state.items.findIndex(item => item.product.id === productId); 0 for -1
findIndex(items, productId) ==
    LET hits == {i \in 1..Len(items) : items[i].product.id = productId}
    IN  IF hits = {} THEN 0 ELSE CHOOSE i \in hits : \A j \in hits : i <= j

\* state.items.filter(item => item.product.id !== productId)
RECURSIVE filterOut(_, _)
filterOut(items, productId) ==
    IF items = <<>> THEN <<>>
    ELSE IF items[1].product.id = productId THEN filterOut(Tail(items), productId)
    ELSE <<items[1]>> \o filterOut(Tail(items), productId)

\* cartReducer(state, action)
cartReducer(state, action) ==
    CASE action.type = "SET_LOADING" -> [state EXCEPT !.isLoading = action.payload]
      [] action.type = "SET_ITEMS" ->
            [state EXCEPT !.items = action.payload,
                          !.totalItems = SumQuantity(action.payload),
                          !.totalPrice = SumPrice(action.payload),
                          !.isLoading = FALSE]
      [] action.type = "ADD_ITEM" ->
            [state EXCEPT !.items = Append(state.items, action.payload),
                          !.totalItems = state.totalItems + action.payload.quantity,
                          !.totalPrice = state.totalPrice
                                         + action.payload.product.price * action.payload.quantity,
                          !.isLoading = FALSE]
      [] action.type = "REMOVE_ITEM" ->
            LET i == findIndex(state.items, action.payload)
            IN  IF i = 0 THEN state
                ELSE [state EXCEPT
                        !.items = filterOut(state.items, action.payload),
                        !.totalItems = state.totalItems - state.items[i].quantity,
                        !.totalPrice = state.totalPrice
                                       - state.items[i].product.price * state.items[i].quantity,
                        !.isLoading = FALSE]
      [] action.type = "UPDATE_ITEM" ->
            LET itemIndex == findIndex(state.items, action.payload.productId)
            IN  IF itemIndex = 0 THEN state
                ELSE LET oldItem == state.items[itemIndex]
                     IN  [state EXCEPT
                            !.items[itemIndex].quantity = action.payload.quantity,
                            !.totalItems = state.totalItems - oldItem.quantity
                                           + action.payload.quantity,
                            !.totalPrice = state.totalPrice
                                           - oldItem.product.price * oldItem.quantity
                                           + oldItem.product.price * action.payload.quantity,
                            !.isLoading = FALSE]
      [] action.type = "CLEAR_CART" ->
            [state EXCEPT !.items = <<>>, !.totalItems = 0, !.totalPrice = 0,
                          !.isLoading = FALSE]
      [] OTHER -> state

----------------------------------------------------------------------------
\* The state after module load, before any request; the environment decides
\* useRedis (NODE_ENV) and whether the Redis server can be reached
InitProcess ==
    /\ ctx = [r \in Requests |-> NoCtx]
    /\ registry = [r \in Requests |-> [l \in LoaderNames |-> EmptyLoader]]
    /\ callers = [r \in Requests |-> {}]
    /\ nContexts = 0
    /\ nLoads = 0
    /\ orders = InitOrders
    /\ op = [r \in Requests |-> IdleOp]
    /\ nOps = 0
    /\ queries = [h \in Hashes |-> NoQuery]
    /\ client = "null"
    /\ isConnected = FALSE
    /\ redis = [key \in CacheKeys |-> NoEntry]
    /\ lastApq = [kind |-> "none"]
    /\ registered = [h \in Hashes |-> Unregistered]
    /\ lastStore = NoCall
    /\ lastCache = NoCall
    /\ page = NoCall
    /\ fields = NoCall
    /\ validation = NoCall
    /\ accounts = InitAccounts
    /\ shown = NoCall
    /\ checkout = InitCheckout
    /\ cart = InitCart
    /\ cartState = initialState

\* A development process next to a reachable Redis server
Init == InitProcess /\ useRedis = FALSE /\ redisUp = TRUE

\* Any NODE_ENV, Redis reachable or not
InitApq == InitProcess /\ useRedis \in BOOLEAN /\ redisUp \in BOOLEAN

\* Request slots are handed out lowest first
FreeSlot(r) == ctx[r] = NoCtx /\ (r = "r2" => ctx["r1"] # NoCtx)

\* createContext({req, res}): fresh loaders and the identity of the bearer token
createContext(r, authHeader) ==
    /\ FreeSlot(r)
    /\ nContexts < MaxContexts
    /\ LET made == createLoaders(r)
       IN  /\ ctx' = [ctx EXCEPT ![r] =
                  [loaders |-> made.id, header |-> authHeader,
                   user |-> ContextUser(authHeader)]]
           /\ registry' = [registry EXCEPT ![made.id] = made.loaders]
    /\ callers' = [callers EXCEPT ![r] = {}]
    /\ nContexts' = nContexts + 1
    /\ op' = [op EXCEPT ![r] = IdleOp]
    /\ UNCHANGED <<nLoads, orders, nOps, cacheVars, apqVars, pageVars, appVars>>

\* DataLoader.load(key), called by a resolver of request r
Load(r, l, k) ==
    /\ ctx[r] # NoCtx
    /\ nLoads < MaxLoads
    /\ LET reg == ctx[r].loaders
           L == registry[reg][l]
           fresh == L.cur = 0
           b == IF fresh THEN L.nBatch + 1 ELSE L.cur
           hit == LoaderOptions.cache /\ L.cache[k] # 0
           p == IF hit THEN L.cache[k] ELSE Len(L.promises) + 1
           L2 == IF hit
                 THEN [L EXCEPT !.cur = b, !.nBatch = IF fresh THEN b ELSE @]
                 ELSE [L EXCEPT !.cur = b, !.nBatch = IF fresh THEN b ELSE @,
                                !.keys = Append(@, k),
                                !.cache[k] = IF LoaderOptions.cache THEN p ELSE @,
                                !.promises = Append(@,
                                    [key |-> k, batch |-> b, req |-> r,
                                     pos |-> Len(L.keys) + 1,
                                     state |-> "pending", value |-> NoValue])]
       IN  /\ registry' = [registry EXCEPT ![reg][l] = L2]
           /\ callers' = [callers EXCEPT ![r] = @ \cup {
                 [loader |-> l, key |-> k, reg |-> reg, promise |-> p,
                  batch |-> b, hit |-> hit]}]
    /\ nLoads' = nLoads + 1
    /\ UNCHANGED <<ctx, nContexts, authVars, cacheVars, apqVars, pageVars, appVars>>

\* dispatchBatch: the scheduled flush of the batch being filled
dispatchBatch(reg, l) ==
    /\ registry[reg][l].cur # 0
    /\ LET L == registry[reg][l]
       IN  registry' = [registry EXCEPT ![reg][l] =
              IF Len(L.keys) = 0
              THEN [L EXCEPT !.cur = 0]
              ELSE [L EXCEPT !.cur = 0, !.keys = <<>>,
                             !.fetches = Append(@,
                                 [batch |-> L.cur, keys |-> L.keys,
                                  status |-> "inflight", error |-> Null,
                                  values |-> <<>>])]]
    /\ UNCHANGED <<ctx, callers, nContexts, nLoads, authVars, cacheVars, apqVars, pageVars, appVars>>

ResolveBatch_uncached(L, b, keys, values) ==
    LET ps == L.promises
    IN  [L EXCEPT !.promises = [i \in 1..Len(ps) |->
            IF ps[i].batch = b
            THEN [ps[i] EXCEPT !.state = "resolved", !.value = values[ps[i].pos]]
            ELSE ps[i]],
                  !.cache = [k \in Keys |-> IF k \in SeqToSet(keys) THEN 0 ELSE L.cache[k]]]

\* Settle the promises of batch b: resolve each with its value
ResolveBatch(L, b, keys, values) ==
    LET ps == L.promises
    IN  [L EXCEPT !.promises = [i \in 1..Len(ps) |->
            IF ps[i].batch = b
            THEN [ps[i] EXCEPT !.state = "resolved",
                               !.value = values[ps[i].pos]]
            ELSE ps[i]]]

failedDispatch_nulls(L, b, keys, e) ==
    LET ps == L.promises
    IN  [L EXCEPT !.promises = [i \in 1..Len(ps) |->
                      IF ps[i].batch = b
                      THEN [ps[i] EXCEPT !.state = "resolved", !.value = NullValue]
                      ELSE ps[i]],
                  !.cache = [k \in Keys |-> IF k \in SeqToSet(keys) THEN 0 ELSE L.cache[k]]]

\* failedDispatch: clear every key of the batch and reject its promises
failedDispatch(L, b, keys, e) ==
    LET ps == L.promises
    IN  [L EXCEPT !.promises = [i \in 1..Len(ps) |->
                      IF ps[i].batch = b
                      THEN [ps[i] EXCEPT !.state = "rejected", !.value = ErrorValue(e)]
                      ELSE ps[i]],
                  !.cache = [k \in Keys |-> IF k \in SeqToSet(keys) THEN 0 ELSE L.cache[k]]]

\* A batch is flushed by a job queued in the tick that opened it
\* (Promise.resolve().then(() => process.nextTick(dispatch))), so the tick
\* runs to its flush before the answer to an earlier fetch of the loader,
\* which arrives in a later tick, is handled.
BetweenCycles(reg, l) == registry[reg][l].cur = 0

\* The backing fetch-many of fetch f returns rows; the batch function maps them
FetchReturns(reg, l, f) ==
    /\ f \in 1..Len(registry[reg][l].fetches)
    /\ registry[reg][l].fetches[f].status = "inflight"
    /\ BetweenCycles(reg, l)
    /\ LET L == registry[reg][l]
           F == L.fetches[f]
           values == BatchValues(l, F.keys, FetchMany(l, F.keys))
           okLen == Len(values) = Len(F.keys)
           L2 == IF okLen
                 THEN ResolveBatch(L, F.batch, F.keys, values)
                 ELSE failedDispatch(L, F.batch, F.keys, TypeError)
       IN  registry' = [registry EXCEPT ![reg][l] =
              [L2 EXCEPT !.fetches[f].status = IF okLen THEN "ok" ELSE "failed",
                         !.fetches[f].values = values,
                         !.fetches[f].error = IF okLen THEN Null ELSE TypeError]]
    /\ UNCHANGED <<ctx, callers, nContexts, nLoads, authVars, cacheVars, apqVars, pageVars, appVars>>

\* The backing fetch-many of fetch f throws e
FetchFails(reg, l, f) ==
    /\ f \in 1..Len(registry[reg][l].fetches)
    /\ registry[reg][l].fetches[f].status = "inflight"
    /\ BetweenCycles(reg, l)
    /\ LET L == registry[reg][l]
           F == L.fetches[f]
           e == StoreError(l, F.batch)
           L2 == failedDispatch(L, F.batch, F.keys, e)
       IN  registry' = [registry EXCEPT ![reg][l] =
              [L2 EXCEPT !.fetches[f].status = "failed", !.fetches[f].error = e]]
    /\ UNCHANGED <<ctx, callers, nContexts, nLoads, authVars, cacheVars, apqVars, pageVars, appVars>>

\* The request has been answered: its context is dropped
Settled(reg) ==
    \A l \in LoaderNames :
        /\ registry[reg][l].cur = 0
        /\ \A i \in 1..Len(registry[reg][l].promises) :
              registry[reg][l].promises[i].state # "pending"

EndRequest(r) ==
    /\ ctx[r] # NoCtx
    /\ Settled(ctx[r].loaders)
    /\ op[r].pc # "update"
    /\ ctx' = [ctx EXCEPT ![r] = NoCtx]
    /\ UNCHANGED <<nContexts, loadVars, authVars, cacheVars, apqVars, pageVars, appVars>>

Next ==
    \/ \E r \in Requests, h \in LoadHeaders : createContext(r, h)
    \/ \E r \in Requests, l \in LoaderNames, k \in Keys : Load(r, l, k)
    \/ \E r \in Requests, l \in LoaderNames : dispatchBatch(r, l)
    \/ \E r \in Requests, l \in LoaderNames, f \in 1..MaxLoads : FetchReturns(r, l, f)
    \/ \E r \in Requests, l \in LoaderNames, f \in 1..MaxLoads : FetchFails(r, l, f)
    \/ \E r \in Requests : EndRequest(r)

Spec == Init /\ [][Next]_vars

\* Requests that only build their context
NextCtx ==
    \/ \E r \in Requests, h \in Headers : createContext(r, h)
    \/ \E r \in Requests : EndRequest(r)

SpecCtx == Init /\ [][NextCtx]_vars

\* The identities the resolver specification draws from
AuthHeaders ==
    { NoHeader, <<"Bearer", SP, "tokU1">>, <<"Bearer", SP, "tokU2">>,
      <<"Bearer", SP, "tokAdmin">> }

\* Requests that call the order resolvers
NextAuth ==
    \/ \E r \in Requests, h \in AuthHeaders : createContext(r, h)
    \/ \E r \in Requests, id \in OrderIds : Query_order(r, id)
    \/ \E r \in Requests : Query_myOrders(r)
    \/ \E r \in Requests, id \in OrderIds, status \in StatusArgs :
          Mutation_updateOrderStatus(r, id, status)
    \/ \E r \in Requests, id \in OrderIds : Mutation_cancelOrder(r, id)
    \/ \E r \in Requests : OrderDAO_update(r)
    \/ \E r \in Requests : EndRequest(r)

SpecAuth == Init /\ [][NextAuth]_vars

\* The persisted-query store in front of the cache service
NextApq ==
    \/ CacheService_connect /\ UNCHANGED <<reqVars, apqVars, pageVars, appVars>>
    \/ Client_onError /\ UNCHANGED <<reqVars, apqVars, pageVars, appVars>>
    \/ Client_onConnect /\ UNCHANGED <<reqVars, apqVars, pageVars, appVars>>
    \/ RedisOutage /\ UNCHANGED <<reqVars, apqVars, pageVars, appVars>>
    \/ \E key \in CacheKeys : RedisExpire(key) /\ UNCHANGED <<reqVars, apqVars, pageVars, appVars>>
    \/ \E query \in Bodies, hash \in Hashes : registerQuery(query, hash) /\ UNCHANGED <<reqVars, pageVars, appVars>>
    \/ \E hash \in Hashes : removeQuery(hash) /\ UNCHANGED <<reqVars, pageVars, appVars>>
    \/ \E request \in Requests_apq : handleRequest(request) /\ UNCHANGED <<reqVars, pageVars, appVars>>

SpecApq == InitApq /\ [][NextApq]_vars

\* Any Redis server state, the shared tier of the persisted queries unused
InitCache == InitProcess /\ useRedis = FALSE /\ redisUp \in BOOLEAN

\* Callers of the cache service next to the events of its client
NextCache ==
    \/ CacheService_connect /\ UNCHANGED <<reqVars, apqVars, pageVars, appVars>>
    \/ Client_onError /\ UNCHANGED <<reqVars, apqVars, pageVars, appVars>>
    \/ Client_onConnect /\ UNCHANGED <<reqVars, apqVars, pageVars, appVars>>
    \/ RedisOutage /\ UNCHANGED <<reqVars, apqVars, pageVars, appVars>>
    \/ \E key \in CacheKeys : RedisExpire(key) /\ UNCHANGED <<reqVars, apqVars, pageVars, appVars>>
    \/ \E key \in CacheKeys : Cache_get(key) /\ UNCHANGED <<reqVars, apqVars, pageVars, appVars>>
    \/ \E key \in CacheKeys, value \in CacheValues :
          Cache_set(key, value) /\ UNCHANGED <<reqVars, apqVars, pageVars, appVars>>
    \/ \E key \in CacheKeys : Cache_del(key) /\ UNCHANGED <<reqVars, apqVars, pageVars, appVars>>
    \/ \E pattern \in Patterns : Cache_delPattern(pattern) /\ UNCHANGED <<reqVars, apqVars, pageVars, appVars>>
    \/ \E key \in CacheKeys : Cache_exists(key) /\ UNCHANGED <<reqVars, apqVars, pageVars, appVars>>

SpecCache == InitCache /\ [][NextCache]_vars

----------------------------------------------------------------------------
(* ProductsList on the client: the pages it has merged *)

\* Pages merged into one list before the client stops loading more
MaxPages == 3

\* The first page of the products query arrives and is written to the cache:
\* merge(existing, incoming) with no existing value returns incoming
ProductsList_show ==
    /\ shown = NoCall
    /\ page # NoCall
    /\ page.kind = "returned"
    /\ page.name = "products"
    /\ shown' = [pagination |-> page.pagination, rowCount |-> page.rowCount,
                 edges |-> page.edges, pageInfo |-> page.pageInfo,
                 totalCount |-> page.totalCount, pages |-> 1, loading |-> FALSE]
    /\ page' = NoCall
    /\ UNCHANGED exceptShownPage

\* ProductsList.handleLoadMore: if (pageInfo?.hasNextPage)
\* fetchMore({variables: {after: pageInfo.endCursor}}); the server answers
\* the products query with the other variables as before
handleLoadMore ==
    /\ shown # NoCall
    /\ ~shown.loading
    /\ shown.pages < MaxPages
    /\ page = NoCall
    /\ shown.pageInfo.hasNextPage
    /\ page' = ListQuery("products",
                         [shown.pagination EXCEPT !.after = <<shown.pageInfo.endCursor>>],
                         shown.rowCount, FALSE)
    /\ shown' = [shown EXCEPT !.loading = TRUE]
    /\ UNCHANGED exceptShownPage

\* typePolicies Query.products merge(existing, incoming):
\* {...incoming, edges: [...existing.edges, ...incoming.edges]}
merge(existing, incoming) ==
    [existing EXCEPT !.edges = existing.edges \o incoming.edges,
                     !.pageInfo = incoming.pageInfo,
                     !.totalCount = incoming.totalCount,
                     !.pagination = incoming.pagination,
                     !.pages = @ + 1,
                     !.loading = FALSE]

\* The page asked for by fetchMore arrives and is merged into the list
fetchMore_merge ==
    /\ shown # NoCall
    /\ shown.loading
    /\ page # NoCall
    /\ shown' = IF page.kind = "returned" THEN merge(shown, page)
                ELSE [shown EXCEPT !.loading = FALSE]
    /\ page' = NoCall
    /\ UNCHANGED exceptShownPage

\* The list is left: the component unmounts and the cache entry is dropped
ProductsList_leave ==
    /\ shown # NoCall
    /\ ~shown.loading
    /\ shown' = NoCall
    /\ UNCHANGED exceptShown

\* Clients that page through the lists; while a product list is shown the
\* model follows that list only
NextPage ==
    \/ \E pagination \in Paginations, rowCount \in RowCounts, negativeIsZero \in BOOLEAN :
          shown = NoCall /\ Query_products(pagination, rowCount, negativeIsZero)
    \/ \E pagination \in Paginations, rowCount \in RowCounts, negativeIsZero \in BOOLEAN :
          shown = NoCall /\ Query_searchProducts(pagination, rowCount, negativeIsZero)
    \/ \E user \in {Null, PayloadU1}, pagination \in Paginations,
          rowCount \in RowCounts, negativeIsZero \in BOOLEAN :
          shown = NoCall /\ Query_myOrdersPage(user, pagination, rowCount, negativeIsZero)
    \/ shown = NoCall /\ SendPage
    \/ ProductsList_show
    \/ handleLoadMore
    \/ fetchMore_merge
    \/ ProductsList_leave

SpecPage == Init /\ [][NextPage]_vars

----------------------------------------------------------------------------
(* Batch loaders: claims C1-C5 *)

LoaderIds == Requests \X LoaderNames

LoaderAt(x) == registry[x[1]][x[2]]

FetchIdx(L) == 1..Len(L.fetches)

\* The fetches of loader L that carry batch b
FetchesOf(L, b) == {f \in FetchIdx(L) : L.fetches[f].batch = b}

\* The fetches of loader L whose key list holds k
FetchesWith(L, k) == {f \in FetchIdx(L) : k \in SeqToSet(L.fetches[f].keys)}

\* The promise a load() call returned
PromiseOf(c) == registry[c.reg][c.loader].promises[c.promise]

\* The keys that load() calls of request r put into batch b of loader l
\* (calls answered from an earlier batch's memoized promise put none)
KeysLoaded(r, l, b) ==
    {c.key : c \in {d \in callers[r] :
                      d.loader = l /\ d.batch = b /\ PromiseOf(d).batch = b}}

\* C1: the load calls made on one loader before a flush are coalesced into
\* exactly one call of the backing fetch-many; its key list holds each
\* distinct key requested in that cycle exactly once; callers of the same
\* key share one promise and so receive the identical result.
Thm_C1_BatchCoalesced ==
    \A r \in Requests : \A l \in LoaderNames :
        LET L == registry[r][l]
        IN  /\ \A b \in 1..L.nBatch :
                 /\ Cardinality(FetchesOf(L, b)) <= 1
                 /\ (b # L.cur /\ KeysLoaded(r, l, b) # {}) =>
                        \E f \in FetchesOf(L, b) :
                           /\ SeqToSet(L.fetches[f].keys) = KeysLoaded(r, l, b)
                           /\ \A k \in KeysLoaded(r, l, b) :
                                 Count(L.fetches[f].keys, k) = 1
            /\ \A c1 \in callers[r] : \A c2 \in callers[r] :
                 (c1.loader = l /\ c2.loader = l /\ c1.key = c2.key
                     /\ c1.batch = c2.batch)
                 => /\ c1.promise = c2.promise
                    /\ PromiseOf(c1).value = PromiseOf(c2).value

\* Two load calls for one key in one cycle, flushed and answered
Wit_C1_BatchCoalesced ==
    \E r \in Requests : \E l \in LoaderNames :
        LET L == registry[r][l]
        IN  /\ Len(L.fetches) = 1
            /\ L.fetches[1].status = "ok"
            /\ \E c1 \in callers[r] : \E c2 \in callers[r] :
                  /\ c1 # c2 /\ c1.loader = l /\ c2.loader = l
                  /\ c1.key = c2.key /\ c1.batch = 1 /\ c2.batch = 1
                  /\ PromiseOf(c1).state = "resolved"

\* C2 as stated: every key is sent to the backing store in at most one fetch
Cex_C2_AtMostOneFetch ==
    \A x \in LoaderIds : \A k \in Keys :
        Cardinality(FetchesWith(LoaderAt(x), k)) <= 1

\* C2 amended: a key is sent again only after every earlier fetch of it
\* failed; a load of a key whose promise has resolved returns that promise
\* and adds the key to no batch.
Thm_C2_MemoizedUnlessFailed ==
    /\ \A x \in LoaderIds : \A k \in Keys :
          LET L == LoaderAt(x)
          IN  \A f1 \in FetchesWith(L, k) : \A f2 \in FetchesWith(L, k) :
                 f1 < f2 => L.fetches[f1].status = "failed"
    /\ \A r \in Requests : \A c \in callers[r] :
          LET L == registry[c.reg][c.loader]
          IN  (PromiseOf(c).state = "resolved" /\ PromiseOf(c).batch # c.batch)
              => /\ c.hit
                 /\ \A f \in FetchesOf(L, c.batch) :
                       c.key \notin SeqToSet(L.fetches[f].keys)
                 /\ (L.cur = c.batch => c.key \notin SeqToSet(L.keys))

\* A resolved key was loaded again in a later cycle, and that cycle was flushed
Wit_C2_MemoizedUnlessFailed ==
    \E r \in Requests : \E c \in callers[r] :
        /\ c.hit
        /\ PromiseOf(c).state = "resolved"
        /\ PromiseOf(c).batch < c.batch
        /\ registry[c.reg][c.loader].cur = 0
        /\ Len(registry[c.reg][c.loader].fetches) = 1

\* C3: a load made in one request is answered only by a promise created by
\* a load of that same request, and every key a loader set sends to the
\* store was put into that batch by a load of the request owning the set.
Thm_C3_RequestIsolation ==
    \A r \in Requests :
        /\ \A c \in callers[r] : PromiseOf(c).req = r /\ c.reg = r
        /\ \A l \in LoaderNames :
              LET L == registry[r][l]
              IN  /\ \A i \in 1..Len(L.promises) : L.promises[i].req = r
                  /\ \A f \in FetchIdx(L) :
                        SeqToSet(L.fetches[f].keys)
                           = KeysLoaded(r, l, L.fetches[f].batch)

\* Both requests are live and loaded the same key of the same loader
Wit_C3_RequestIsolation ==
    /\ ctx["r1"] # NoCtx /\ ctx["r2"] # NoCtx
    /\ \E c1 \in callers["r1"] : \E c2 \in callers["r2"] :
          /\ c1.loader = c2.loader /\ c1.key = c2.key
          /\ PromiseOf(c1).state = "resolved"
          /\ ~c2.hit

\* C4: when the fetch-many of a batch fails, every promise of that batch is
\* rejected with the error of that fetch (none is resolved with null or an
\* empty list), and the loader issues no second fetch for the batch: every
\* key in a fetch was put there by a load call of that cycle.
Thm_C4_BatchFailure ==
    \A r \in Requests :
        /\ \A c \in callers[r] :
              LET L == registry[c.reg][c.loader]
                  p == PromiseOf(c)
              IN  \A f \in FetchesOf(L, p.batch) :
                     L.fetches[f].status = "failed"
                     => /\ p.state = "rejected"
                        /\ p.value = ErrorValue(L.fetches[f].error)
        /\ \A l \in LoaderNames :
              LET L == registry[r][l]
              IN  /\ \A b \in 1..L.nBatch : Cardinality(FetchesOf(L, b)) <= 1
                  /\ \A f \in FetchIdx(L) :
                        SeqToSet(L.fetches[f].keys)
                           \subseteq KeysLoaded(r, l, L.fetches[f].batch)

\* Two load calls were waiting on a batch whose fetch failed
Wit_C4_BatchFailure ==
    \E r \in Requests : \E c1 \in callers[r] : \E c2 \in callers[r] :
        /\ c1 # c2 /\ c1.loader = c2.loader
        /\ PromiseOf(c1).batch = PromiseOf(c2).batch
        /\ PromiseOf(c1).state = "rejected"
        /\ PromiseOf(c2).state = "rejected"
        /\ \E f \in FetchIdx(registry[r][c1.loader]) :
              registry[r][c1.loader].fetches[f].status = "failed"

\* The value the store holds for key k of loader l
StoredValue(l, k) ==
    IF l = "productsByIds"
    THEN IF \E i \in 1..Len(productsTable) : productsTable[i].id = k
         THEN EntityValue(productsTable[CHOOSE i \in 1..Len(productsTable) :
                                           productsTable[i].id = k])
         ELSE NullValue
    ELSE ListValue(SelectSeq(reviewsTable, LAMBDA row : row.product_id = k))

\* C5: the batch function returns one value per key, in key order: the
\* entity whose id is the key or null (by-id loader), the rows owned by the
\* key, possibly none (relationship loader); a missing key fails no batch.
Thm_C5_KeyOrder ==
    \A x \in LoaderIds :
        LET L == LoaderAt(x)
        IN  \A f \in FetchIdx(L) :
               LET F == L.fetches[f]
               IN  /\ F.error # TypeError
                   /\ F.status = "ok" =>
                        /\ Len(F.values) = Len(F.keys)
                        /\ \A i \in 1..Len(F.keys) :
                              F.values[i] = StoredValue(x[2], F.keys[i])
                        /\ \A i \in 1..Len(L.promises) :
                              L.promises[i].batch = F.batch
                              => L.promises[i].value
                                    = StoredValue(x[2], L.promises[i].key)

\* A by-id batch asked for a stored key after a key the store does not have
Wit_C5_KeyOrder ==
    \E r \in Requests :
        LET L == registry[r]["productsByIds"]
        IN  \E f \in FetchIdx(L) :
               /\ L.fetches[f].status = "ok"
               /\ Len(L.fetches[f].keys) = 2
               /\ L.fetches[f].values[1] = NullValue
               /\ L.fetches[f].values[2].kind = "entity"
----------------------------------------------------------------------------
(* Identity and authorization: claims C6-C9 *)

IsOwnerOrAdmin(user, owner) ==
    IF user = Null THEN FALSE ELSE user.userId = owner \/ user.isAdmin

\* C6: an ownership check lets a call through exactly when the request has
\* an identity that is the owner or is admin, and then with that identity;
\* an identity that is neither fails with the access-denied error (a request
\* without identity with 'Authentication required').
Thm_C6_Ownership ==
    \A r \in Requests :
        op[r].pc # "idle" /\ op[r].guard # "none" =>
            /\ op[r].passed <=> IsOwnerOrAdmin(op[r].user, op[r].owner)
            /\ op[r].passed => op[r].error # AccessDeniedInsufficient
                               /\ op[r].error # AccessDenied
                               /\ op[r].error # AuthenticationRequired
            /\ (~op[r].passed /\ op[r].user # Null) =>
                  /\ op[r].pc = "done"
                  /\ op[r].result = Null
                  /\ op[r].writes = 0
                  /\ op[r].error = IF op[r].guard = "requireOwnership"
                                   THEN AccessDeniedInsufficient ELSE AccessDenied
            /\ (~op[r].passed /\ op[r].user = Null) =>
                  /\ op[r].pc = "done"
                  /\ op[r].result = Null
                  /\ op[r].error = AuthenticationRequired

\* u1 was refused on an order of u2 while the admin, not its owner, got through
Wit_C6_Ownership ==
    /\ op["r1"].pc = "done" /\ op["r1"].guard = "requireOwnership"
    /\ op["r1"].user = PayloadU1 /\ op["r1"].owner = "u2" /\ ~op["r1"].passed
    /\ op["r2"].pc = "done" /\ op["r2"].guard = "requireOwnership"
    /\ op["r2"].user = PayloadAdmin /\ op["r2"].owner = "u2" /\ op["r2"].passed
    /\ op["r2"].error = "none"

AuthorizationErrors == {AuthenticationRequired, AccessDeniedInsufficient, AccessDenied}

\* C7 as stated: a call that fails its authorization check has caused no
\* backing-store read or write.
Cex_C7_CheckBeforeStore ==
    \A r \in Requests :
        (op[r].pc = "done" /\ op[r].error \in AuthorizationErrors)
        => op[r].reads = 0 /\ op[r].writes = 0

\* The identity createContext must build for a header: that of the three
\* access tokens that verify, sent as 'Bearer <token>'; none otherwise.
VerifiedIdentity(authHeader) ==
    CASE authHeader = <<"Bearer", SP, "tokU1">> -> PayloadU1
      [] authHeader = <<"Bearer", SP, "tokU2">> -> PayloadU2
      [] authHeader = <<"Bearer", SP, "tokAdmin">> -> PayloadAdmin
      [] OTHER -> Null

\* C8: createContext yields user = null for an absent header, a header not
\* of the form 'Bearer <token>' and a token that fails verification; a
\* non-null user is the complete payload of a token that verified.
Thm_C8_FailClosed ==
    \A r \in Requests :
        ctx[r] # NoCtx =>
            /\ ctx[r].user = VerifiedIdentity(ctx[r].header)
            /\ ctx[r].user # Null =>
                  /\ DOMAIN ctx[r].user = {"userId", "email", "isAdmin"}
                  /\ Len(ctx[r].header) = 3
                  /\ JwtOf(ctx[r].header[3]).secret = jwtSecret
                  /\ ~JwtOf(ctx[r].header[3]).expired

\* One request came with an expired token, the other with a valid one
Wit_C8_FailClosed ==
    /\ ctx["r1"] # NoCtx /\ ctx["r2"] # NoCtx
    /\ ctx["r1"].header = <<"Bearer", SP, "tokExpired">> /\ ctx["r1"].user = Null
    /\ ctx["r2"].header = <<"Bearer", SP, "tokU2">> /\ ctx["r2"].user = PayloadU2

RequireAuthFirst == {"myOrders", "updateOrderStatus", "cancelOrder"}

\* C9: a resolver that starts with requireAuth, called without identity,
\* fails with 'Authentication required', returns nothing and has read and
\* written nothing; so does myOrders.
Thm_C9_AuthRequired ==
    \A r \in Requests :
        (op[r].pc # "idle" /\ op[r].name \in RequireAuthFirst /\ op[r].user = Null)
        => /\ op[r].pc = "done"
           /\ op[r].error = AuthenticationRequired
           /\ op[r].result = Null
           /\ op[r].reads = 0
           /\ op[r].writes = 0

\* myOrders was called by a request without credentials
Wit_C9_AuthRequired ==
    \E r \in Requests :
        /\ ctx[r] # NoCtx /\ ctx[r].header = NoHeader
        /\ op[r].pc = "done" /\ op[r].name = "myOrders"
        /\ op[r].error = AuthenticationRequired
----------------------------------------------------------------------------
(* Persisted queries: claim C10 *)

HashOnly(call) ==
    /\ call.kind # "none"
    /\ call.request.sha256Hash # Undefined
    /\ call.request.query = Undefined

----------------------------------------------------------------------------
(* Persisted queries: claims C11-C14 *)

HashAndBody(call) ==
    /\ call.kind # "none"
    /\ call.request.sha256Hash # Undefined
    /\ call.request.query # Undefined

\* C11: a request that carries both a hash and a body registers the body
\* under the hash and is answered with that body in the same round trip,
\* also when the hash was not registered before.
Cex_C11_RegisterThenExecute ==
    HashAndBody(lastApq) =>
        /\ lastApq.kind = "registered"
        /\ lastApq.query = lastApq.request.query

\* What a lookup of the hash gives in the current state
Lookup(hash) == getQuery(hash).query

\* C12: a hash is immutable once registered: an addQuery for a hash that
\* already resolves to a body leaves the hash resolving to that body.
Cex_C12_HashImmutable ==
    (lastStore.op = "addQuery" /\ lastStore.before \in Bodies)
        => Lookup(lastStore.hash) = lastStore.before

\* C13: registration is idempotent and last-write-wins: after addQuery(h, B)
\* the lookup of h gives B, whatever h resolved to before (so repeating the
\* call changes nothing), and every getQuery(h) made while B is the body
\* last registered returns B.
Thm_C13_LastWriteWins ==
    /\ lastStore.op = "addQuery" =>
          /\ Lookup(lastStore.hash) = lastStore.query
          /\ queries[lastStore.hash] = [query |-> lastStore.query, hash |-> lastStore.hash]
    /\ (lastStore.op = "getQuery" /\ registered[lastStore.hash] \in Bodies)
          => lastStore.result = registered[lastStore.hash]

\* A hash that resolved to one body was registered again with another, and
\* a later getQuery returned the second body
Wit_C13_LastWriteWins ==
    /\ lastStore.op = "getQuery"
    /\ lastStore.hash = "h1"
    /\ lastStore.result = "query B"
    /\ registered["h1"] = "query B"
    /\ useRedis
    /\ redis[PersistedQueryKey("h1")] = JSON_stringify([query |-> "query A", hash |-> "h1"])

\* C14: getQuery answers from the in-memory map without a shared-store call
\* when the map holds the hash; on a local miss it makes one shared-store
\* call if the shared tier is enabled and none otherwise; a shared-store hit
\* is returned and backfilled into the map, so that the next getQuery makes
\* no shared-store call; a shared-store miss, or a shared store that is
\* unavailable or throws, yields null.
Thm_C14_TieredLookup ==
    lastStore.op = "getQuery" =>
        /\ lastStore.memoryHit =>
              lastStore.sharedCalls = 0 /\ lastStore.result = lastStore.before
        /\ ~lastStore.memoryHit =>
              /\ lastStore.sharedCalls = (IF lastStore.useRedis THEN 1 ELSE 0)
              /\ (lastStore.useRedis /\ lastStore.sharedReply # NoEntry) =>
                    /\ lastStore.result = JSON_parse(lastStore.sharedReply).query
                    /\ lastStore.backfilled = JSON_parse(lastStore.sharedReply)
              /\ (~lastStore.useRedis \/ lastStore.sharedReply = NoEntry
                     \/ lastStore.sharedDown) =>
                    /\ lastStore.result = NullString
                    /\ lastStore.backfilled = NoQuery
        /\ (lastStore.backfilled # NoQuery /\ queries[lastStore.hash] = lastStore.backfilled)
              => getQuery(lastStore.hash).sharedCalls = 0

\* A getQuery that missed locally, hit the shared store and backfilled the map
Wit_C14_TieredLookup ==
    /\ lastStore.op = "getQuery"
    /\ ~lastStore.memoryHit
    /\ lastStore.sharedCalls = 1
    /\ lastStore.result \in Bodies
    /\ queries[lastStore.hash] # NoQuery

----------------------------------------------------------------------------
(* Cache service: claim C20 *)

\* C20: no cacheService operation throws; a get made while the cache is
\* degraded (no client, the mock client of a failed connect, marked
\* disconnected, or a client that throws) reports a miss; after a failed
\* connect a get that follows a set of the same key is still a miss.
Thm_C20_CacheDegrades ==
    lastCache.op # "none" =>
        /\ ~lastCache.threw
        /\ (lastCache.op = "get" /\ lastCache.degraded) => lastCache.value = NoEntry
        /\ (lastCache.op = "get" /\ lastCache.client = "mock"
               /\ lastCache.prev = <<"set", lastCache.key>>)
              => lastCache.value = NoEntry
        /\ (lastCache.degraded /\ lastCache.client # "mock"
               /\ lastCache.op \in {"set", "del", "delPattern", "exists"})
              => lastCache.value = FALSE

\* After a failed connect, a get that follows a set of the same key
Wit_C20_CacheDegrades ==
    /\ lastCache.op = "get"
    /\ lastCache.client = "mock"
    /\ lastCache.prev = <<"set", lastCache.key>>
    /\ lastCache.value = NoEntry

----------------------------------------------------------------------------
(* Cursor pagination: claims C15-C19 *)

\* The request carries a (non-empty) `after` cursor
AfterGiven(p) == p.pagination.after # <<>> /\ p.pagination.after[1] # <<>>

\* The cursor decodes to a non-negative integer offset
DecodesToOffset(cursor) ==
    LET o == parseInt(decodeCursor(cursor)) IN ~o.nan /\ o.n >= 0

CursorOf(n) == encodeCursor(NumberToString(Num(n)))

\* C15: a list query whose `after` cursor does not decode to a non-negative
\* integer offset fails, and sends no statement to the backing store.
Cex_C15_InvalidCursor ==
    (page # NoCall /\ AfterGiven(page) /\ ~DecodesToOffset(page.pagination.after[1]))
        => page.kind = "threw" /\ page.scans = 0

\* C16: the limit passed to the backing store is within 1..100, and a
\* request for more than 100 rows (otherwise valid) is answered with a page
\* of limit 100 rather than rejected.
Cex_C16_LimitCapped ==
    page # NoCall =>
        /\ page.scans > 0 => (1 <= page.limit /\ page.limit <= 100)
        /\ (page.name = "products" /\ page.pagination.after = <<>>
               /\ page.pagination.last = <<>> /\ page.pagination.first # <<>>
               /\ page.pagination.first[1] > 100)
              => page.kind = "returned" /\ page.limit = 100

\* C17: the cursor of every edge decodes back to the non-negative offset it
\* was encoded from, and the cursor a client was given for offset o is read
\* back as offset o, in the product and in the order resolvers.
Thm_C17_CursorRoundTrip ==
    page # NoCall =>
        /\ page.kind = "returned" =>
              \A i \in 1..Len(page.edges) :
                 page.offset.n + (i - 1) >= 0 =>
                    parseInt(decodeCursor(page.edges[i].cursor))
                        = Num(page.offset.n + (i - 1))
        /\ \A o \in Offsets :
              (page.scans > 0 /\ page.pagination.after = <<CursorOf(o)>>)
                 => page.offset = Num(o)

\* myOrders answered a request that sent the cursor of offset 20 with a page
\* of several edges
Wit_C17_CursorRoundTrip ==
    /\ page # NoCall
    /\ page.name = "myOrders"
    /\ page.kind = "returned"
    /\ page.pagination.after = <<CursorOf(20)>>
    /\ Len(page.edges) >= 2

\* C18: every returned page has at most `limit` edges, hasNextPage =
\* (offset + limit < totalCount) and hasPreviousPage = (offset > 0); with 25
\* rows and limit 10, offset 0 gives hasNextPage and no previous page, and
\* offset 20 gives 5 edges and no next page.
Thm_C18_PageInfo ==
    (page # NoCall /\ page.kind = "returned") =>
        /\ Len(page.edges) <= page.limit
        /\ page.pageInfo.hasNextPage = (page.offset.n + page.limit < page.totalCount)
        /\ page.pageInfo.hasPreviousPage = (page.offset.n > 0)
        /\ page.totalCount = page.rowCount
        /\ (page.rowCount = 25 /\ page.limit = 10 /\ page.offset = Num(0))
              => /\ page.pageInfo.hasNextPage
                 /\ ~page.pageInfo.hasPreviousPage
                 /\ Len(page.edges) = 10
        /\ (page.rowCount = 25 /\ page.limit = 10 /\ page.offset = Num(20))
              => /\ Len(page.edges) = 5
                 /\ ~page.pageInfo.hasNextPage
                 /\ page.pageInfo.hasPreviousPage

\* The third page of 25 rows read 10 at a time
Wit_C18_PageInfo ==
    /\ page # NoCall
    /\ page.kind = "returned"
    /\ page.rowCount = 25 /\ page.limit = 10 /\ page.offset = Num(20)
    /\ Len(page.edges) = 5

\* C19: in every returned page startCursor and endCursor are null when no
\* row is returned; otherwise startCursor encodes the offset, endCursor
\* encodes offset + edges.length - 1, and the edge at index i has the cursor
\* of offset + i.
Thm_C19_Cursors ==
    (page # NoCall /\ page.kind = "returned") =>
        LET n == Len(page.edges)
            At(k) == encodeCursor(NumberToString(Num(page.offset.n + k)))
        IN  /\ n = 0 => /\ page.pageInfo.startCursor = NullCursor
                        /\ page.pageInfo.endCursor = NullCursor
            /\ n > 0 => /\ page.pageInfo.startCursor = At(0)
                        /\ page.pageInfo.endCursor = At(n - 1)
            /\ \A i \in 1..n : page.edges[i].cursor = At(i - 1)

\* searchProducts returned a page of two edges from offset 2
Wit_C19_Cursors ==
    /\ page # NoCall
    /\ page.name = "searchProducts"
    /\ page.kind = "returned"
    /\ page.offset = Num(2)
    /\ Len(page.edges) = 2
    /\ page.pageInfo.endCursor = CursorOf(3)

----------------------------------------------------------------------------
(* Field resolvers over the loaders: claim C21 *)

\* transformReview(review): the row as the schema's Review
transformReview(review) == [id |-> review.id]

\* Product.reviews: try { (await loaders.reviewsByProduct.load(parent.id))
\* .map(transformReview) } catch { log; return [] }
Product_reviews(promise) ==
    IF promise.state = "pending" THEN NoValue
    ELSE IF promise.state = "rejected" THEN ListValue(<<>>)
    ELSE ListValue([i \in 1..Len(promise.value.rows) |->
                        transformReview(promise.value.rows[i])])

\* CartItem.product / OrderItem.product: try { product =
\* await loaders.productsByIds.load(parent.product_id);
\* return product ? {...} : null } catch { log; return null }
CartItem_product(promise) ==
    IF promise.state = "pending" THEN NoValue
    ELSE IF promise.state = "rejected" THEN NullValue
    ELSE IF promise.value.kind = "entity"
         THEN EntityValue([id |-> promise.value.row.id])
         ELSE NullValue

\* What the field whose resolver made load call c contributes to the response
FieldResult(c) ==
    IF c.loader = "reviewsByProduct" THEN Product_reviews(PromiseOf(c))
    ELSE CartItem_product(PromiseOf(c))

\* C21: a field whose batch failed in the backing store is answered with an
\* error for that field, never with null or an empty list.
Cex_C21_FieldError ==
    \A r \in Requests : \A c \in callers[r] :
        PromiseOf(c).state = "rejected" => FieldResult(c).kind = "error"

----------------------------------------------------------------------------
(* Child fields resolved for a list of parents: claim C22 *)

\* Per child field: the loader its resolver loads from ("none": no loader),
\* the fetch-many that loader's batch function calls, and the DAO method the
\* resolver calls itself for its own parent ("none": no such call).
\*   Product.seller         loaders.userById.load(parent.seller_id)
\*   Product.attributes     loaders.productsByIds.load(parent.id)
\*                            .then(() => productDAO.findAttributesByProduct(parent.id))
\*   Product.images         loaders.productsByIds.load(parent.id)
\*                            .then(() => productDAO.findImagesByProduct(parent.id))
\*   Product.reviews        loaders.reviewsByProduct.load(parent.id)
\*   Product.averageRating  productDAO.getProductStats(parent.id)
\*   Product.reviewCount    productDAO.getProductStats(parent.id)
\*   Order.items            loaders.orderItemsByOrder.load(parent.id)
\*   OrderItem.order        orderDAO.findById(parent.order_id)
\*   OrderItem.product      loaders.productsByIds.load(parent.product_id)
FieldResolvers ==
    [seller        |-> [loader |-> "userById", bulk |-> "findByIds",
                        direct |-> "none"],
     attributes    |-> [loader |-> "productsByIds", bulk |-> "findByIds",
                        direct |-> "findAttributesByProduct"],
     images        |-> [loader |-> "productsByIds", bulk |-> "findByIds",
                        direct |-> "findImagesByProduct"],
     reviews       |-> [loader |-> "reviewsByProduct", bulk |-> "findReviewsByProducts",
                        direct |-> "none"],
     averageRating |-> [loader |-> "none", bulk |-> "none",
                        direct |-> "getProductStats"],
     reviewCount   |-> [loader |-> "none", bulk |-> "none",
                        direct |-> "getProductStats"],
     items         |-> [loader |-> "orderItemsByOrder", bulk |-> "findItemsByOrders",
                        direct |-> "none"],
     order         |-> [loader |-> "none", bulk |-> "none",
                        direct |-> "findById"],
     product       |-> [loader |-> "productsByIds", bulk |-> "findByIds",
                        direct |-> "none"]]

ChildFields == DOMAIN FieldResolvers

\* Number of parent objects in a list whose child field is resolved
MaxParents == 3

\* The key each parent of the list passes to the field's resolver
ParentLists == UNION {[1..n -> Keys] : n \in 1..MaxParents}

\* The executor starts on the child field of every parent of a list
ResolveList(field, parents) ==
    /\ fields = NoCall
    /\ fields' = [field |-> field, parents |-> parents, next |-> 1,
                  queued |-> <<>>, then |-> 0, calls |-> <<>>, phase |-> "resolving"]
    /\ UNCHANGED exceptFields

\* The resolver of the next parent runs up to its first await: a load() puts
\* the key into the loader's batch unless it is there already, a DAO call
\* goes to the backing store
RunResolver ==
    /\ fields # NoCall
    /\ fields.phase = "resolving"
    /\ fields.next <= Len(fields.parents)
    /\ LET plan == FieldResolvers[fields.field]
           key == fields.parents[fields.next]
       IN  fields' =
             IF plan.loader # "none"
             THEN [fields EXCEPT !.next = @ + 1,
                      !.queued = IF key \in SeqToSet(@) THEN @ ELSE Append(@, key)]
             ELSE [fields EXCEPT !.next = @ + 1,
                      !.calls = Append(@, [fn |-> plan.direct, keys |-> <<key>>])]
    /\ UNCHANGED exceptFields

\* End of the tick: the loader's batch is flushed in one fetch-many; fields
\* without a loader are resolved
FlushFields ==
    /\ fields # NoCall
    /\ fields.phase = "resolving"
    /\ fields.next > Len(fields.parents)
    /\ LET plan == FieldResolvers[fields.field]
       IN  fields' =
             IF plan.loader = "none" THEN [fields EXCEPT !.phase = "done"]
             ELSE [fields EXCEPT
                     !.calls = Append(@, [fn |-> plan.bulk, keys |-> fields.queued]),
                     !.queued = <<>>,
                     !.then = 1,
                     !.phase = IF plan.direct = "none" THEN "done" ELSE "then"]
    /\ UNCHANGED exceptFields

\* The load() of the next parent has resolved: its .then() callback calls the DAO
ThenCallback ==
    /\ fields # NoCall
    /\ fields.phase = "then"
    /\ LET plan == FieldResolvers[fields.field]
           key == fields.parents[fields.then]
       IN  fields' = [fields EXCEPT
                        !.calls = Append(@, [fn |-> plan.direct, keys |-> <<key>>]),
                        !.then = @ + 1,
                        !.phase = IF fields.then = Len(fields.parents)
                                  THEN "done" ELSE "then"]
    /\ UNCHANGED exceptFields

\* The field is resolved for every parent and the response is sent
SendFields ==
    /\ fields # NoCall
    /\ fields.phase = "done"
    /\ fields' = NoCall
    /\ UNCHANGED exceptFields

NextFields ==
    \/ \E field \in ChildFields, parents \in ParentLists : ResolveList(field, parents)
    \/ RunResolver
    \/ FlushFields
    \/ ThenCallback
    \/ SendFields

SpecFields == Init /\ [][NextFields]_vars

\* C22: resolving one child field for the parents of a list sends no
\* statement to the backing store more than once, however many parents there
\* are: each DAO method is called at most once per field and flush cycle.
Cex_C22_NoNPlusOne ==
    fields # NoCall =>
        \A i \in 1..Len(fields.calls) : \A j \in 1..Len(fields.calls) :
            i # j => fields.calls[i].fn # fields.calls[j].fn

----------------------------------------------------------------------------
(* Query validation rules: claim C23 *)

\* depthLimit(6)
maxDepth == 6

\* const maxComplexity = 1000
maxComplexity == 1000

\* Field nodes a traversal visits before it is cut off
MaxFields == 101

\* node.name.value of the Field nodes of a document
FieldNames == {"products", "searchProducts", "reviews", "orderItems", "id"}

\* Nesting depth of the document's deepest operation
Depths == {6, 7}

\* context.request of the validation context handed to the rules
RequestOf == {"undefined", "headers"}

DepthExceeded == "exceeds maximum operation depth of 6"

ComplexityExceeded == "exceeds maximum allowed complexity of 1000"

LibraryComplexityExceeded == "query exceeds complexity limit"

InvalidRequestHeaders == "Invalid request headers"

FieldComplexity_flat(name) == 1

\* queryComplexityRule Field(node): the amount added for one field node
FieldComplexity(name) ==
    IF name = "products" \/ name = "searchProducts" THEN 10
    ELSE IF name = "reviews" \/ name = "orderItems" THEN 5
    ELSE 1

\* depthLimitRule: reports an error for a document deeper than the limit
depthLimitRule(depth) == IF depth > maxDepth THEN {DepthExceeded} ELSE {}

\* rateLimitRule: if (!request || !request.headers) throw
rateLimitRule(request) == IF request = "undefined" THEN {InvalidRequestHeaders} ELSE {}

\* The claim's weight classes, counted next to the rule's own counter
WeightClass(name) ==
    IF name \in {"products", "searchProducts"} THEN "heavy"
    ELSE IF name \in {"reviews", "orderItems"} THEN "medium"
    ELSE "light"

\* validate(schema, document, validationRules): every rule is set up on the
\* validation context in list order; a rule that throws ends the validation
validate(depth, request) ==
    /\ validation = NoCall
    /\ validation' =
          [depth |-> depth, request |-> request,
           complexity |-> 0,
           seen |-> [heavy |-> 0, medium |-> 0, light |-> 0],
           errors |-> depthLimitRule(depth) \cup rateLimitRule(request),
           phase |-> IF rateLimitRule(request) # {} THEN "rejected" ELSE "visiting",
           resolved |-> FALSE]
    /\ UNCHANGED exceptValidation

\* queryComplexityRule Field(node), called for each Field node of the traversal
queryComplexityRule(name) ==
    /\ validation # NoCall
    /\ validation.phase = "visiting"
    /\ validation.seen.heavy + validation.seen.medium + validation.seen.light < MaxFields
    /\ LET complexity == validation.complexity + FieldComplexity(name)
           over == complexity > maxComplexity
       IN  validation' = [validation EXCEPT
              !.complexity = complexity,
              !.seen[WeightClass(name)] = @ + 1,
              !.errors = IF over THEN @ \cup {ComplexityExceeded} ELSE @,
              !.phase = IF over THEN "rejected" ELSE "visiting"]
    /\ UNCHANGED exceptValidation

\* The traversal leaves the document: complexityLimitRule(1500) of the
\* graphql-validation-complexity package gives its verdict, and the document
\* is valid if no rule reported an error
leaveDocument(libraryRejects) ==
    /\ validation # NoCall
    /\ validation.phase = "visiting"
    /\ LET errors == validation.errors \cup
                       (IF libraryRejects THEN {LibraryComplexityExceeded} ELSE {})
       IN  validation' = [validation EXCEPT
              !.errors = errors,
              !.phase = IF errors = {} THEN "valid" ELSE "rejected"]
    /\ UNCHANGED exceptValidation

\* A valid document is executed: its resolvers run
execute ==
    /\ validation # NoCall
    /\ validation.phase = "valid"
    /\ validation' = [validation EXCEPT !.phase = "responding", !.resolved = TRUE]
    /\ UNCHANGED exceptValidation

\* The response (data or the validation errors) is sent
sendResponse ==
    /\ validation # NoCall
    /\ validation.phase \in {"rejected", "responding"}
    /\ validation' = NoCall
    /\ UNCHANGED exceptValidation

NextValidate ==
    \/ \E depth \in Depths, request \in RequestOf : validate(depth, request)
    \/ \E name \in FieldNames : queryComplexityRule(name)
    \/ \E libraryRejects \in BOOLEAN : leaveDocument(libraryRejects)
    \/ execute
    \/ sendResponse

SpecValidate == Init /\ [][NextValidate]_vars

\* 10 per products/searchProducts field, 5 per reviews/orderItems field,
\* 1 per other field
WeightedCost(seen) == 10 * seen.heavy + 5 * seen.medium + seen.light

----------------------------------------------------------------------------
(* Registration and login: the calls, claims C24 and C25 *)

\* mutation register(input)
register(input) ==
    /\ accounts' = Mutation_register(accounts, input)
    /\ UNCHANGED exceptAccounts

\* mutation login(input)
login(input) ==
    /\ accounts' = Mutation_login(accounts, input)
    /\ UNCHANGED exceptAccounts

NextAccounts ==
    \/ \E input \in AuthInputs : register(input)
    \/ \E input \in AuthInputs : login(input)

SpecAccounts == Init /\ [][NextAccounts]_vars

\* A user registered under, or seeded with, the address as typed
EmailTaken(users, email) == \E u \in users : u.entered = email

\* C24: register with an address some user already has fails with 'User with
\* this email already exists'; the users table and the cookie are as before
\* and no tokens are returned.
Thm_C24_DuplicateEmail ==
    (/\ accounts.last.op = "register"
     /\ RegisterInputSchema(accounts.last.input) = <<>>
     /\ EmailTaken(accounts.last.usersBefore, accounts.last.input.email))
    => /\ accounts.last.error = <<UserExists>>
       /\ accounts.users = accounts.last.usersBefore
       /\ accounts.cookie = accounts.last.cookieBefore
       /\ accounts.last.tokens = NoTokens

\* The address with an apostrophe was registered, then registered again
Wit_C24_DuplicateEmail ==
    /\ accounts.last.op = "register"
    /\ accounts.last.input.email = <<"o", Apostrophe, "b", "@", "x">>
    /\ Len(accounts.last.input.password) >= 8
    /\ EmailTaken(accounts.last.usersBefore, accounts.last.input.email)
    /\ accounts.last.error = <<UserExists>>

\* The password a user of this address chose
PasswordMatches(users, input) ==
    \E u \in users : u.entered = input.email /\ u.password = input.password

\* C25: login with an unknown address and login with a wrong password fail
\* with the same 'Invalid email or password'; the users table and the cookie
\* are as before and no tokens are returned.
Thm_C25_InvalidCredentials ==
    (/\ accounts.last.op = "login"
     /\ LoginInputSchema(accounts.last.input) = <<>>
     /\ ~PasswordMatches(accounts.last.usersBefore, accounts.last.input))
    => /\ accounts.last.error = <<InvalidCredentials>>
       /\ accounts.users = accounts.last.usersBefore
       /\ accounts.cookie = accounts.last.cookieBefore
       /\ accounts.last.tokens = NoTokens

\* A registered user typed a wrong password
Wit_C25_InvalidCredentials ==
    /\ accounts.last.op = "login"
    /\ EmailTaken(accounts.last.usersBefore, accounts.last.input.email)
    /\ ~PasswordMatches(accounts.last.usersBefore, accounts.last.input)
    /\ accounts.last.input.password = pwB
    /\ accounts.last.error = <<InvalidCredentials>>

----------------------------------------------------------------------------
(* Forward paging: claim C26 *)

\* C26: the pages a client merges by passing each endCursor as `after` list
\* consecutive rows: no row twice, none left out.
Cex_C26_GapFree ==
    shown # NoCall =>
        \A i \in 1..(Len(shown.edges) - 1) :
            shown.edges[i + 1].node = shown.edges[i].node + 1

----------------------------------------------------------------------------
(* Cancelling an order: claim C27 *)

\* C27: the write of a cancelOrder call never moves an order that is
\* 'delivered' or 'cancelled' at that moment to 'cancelled': such a call
\* fails and leaves the order as it is.
Cex_C27_CancelFinalOrder ==
    [][\A r \in Requests :
          (/\ op[r].pc = "update"
           /\ op[r].name = "cancelOrder"
           /\ op'[r].pc = "done"
           /\ orders[op[r].id] # NoOrder
           /\ orders[op[r].id].status \in {"delivered", "cancelled"})
          => /\ orders' = orders
             /\ op'[r].error # "none"]_vars

----------------------------------------------------------------------------
(* createOrder: the call, claim C28 *)

\* mutation createOrder(input)
createOrder(user, input, failAt) ==
    /\ checkout.calls < MaxCheckouts
    /\ checkout' = Mutation_createOrder(checkout, user, input, failAt)
    /\ UNCHANGED exceptCheckout

NextCheckout ==
    \E user \in {Null, PayloadU1}, input \in CreateOrderInputs, failAt \in 0..3 :
        createOrder(user, input, failAt)

SpecCheckout == Init /\ [][NextCheckout]_vars

\* C28: after a createOrder call that failed neither its order row nor any
\* of its items exists; after one that succeeded the order row and one item
\* per input item exist.
Cex_C28_AllOrNothing ==
    checkout.last.op = "createOrder" =>
        LET id == checkout.last.orderId
            rows == {o \in checkout.orders : o.id = id}
            items == {i \in checkout.order_items : i.order_id = id}
        IN  IF checkout.last.error # <<>>
            THEN rows = {} /\ items = {}
            ELSE Cardinality(rows) = 1 /\ Cardinality(items) = checkout.last.nItems

----------------------------------------------------------------------------
(* Cart mutations: the calls, claim C29 *)

\* mutation removeFromCart(cartItemId)
removeFromCart(user, cartItemId) ==
    /\ cart' = Mutation_removeFromCart(cart, user, cartItemId)
    /\ UNCHANGED exceptCart

\* mutation updateCartItem(cartItemId, quantity)
updateCartItem(user, cartItemId, quantity) ==
    /\ cart' = Mutation_updateCartItem(cart, user, cartItemId, quantity)
    /\ UNCHANGED exceptCart

CartCallers == {Null, PayloadU1, PayloadU2, PayloadAdmin}

NextCart ==
    \/ \E user \in CartCallers, cartItemId \in CartItemIds :
          removeFromCart(user, cartItemId)
    \/ \E user \in CartCallers, cartItemId \in CartItemIds, quantity \in {0, 2, 3} :
          updateCartItem(user, cartItemId, quantity)

SpecCart == Init /\ [][NextCart]_vars

\* C29: removeFromCart and updateCartItem called for a cart item of another
\* user by a caller who is not privileged fail and leave the table as it was.
Cex_C29_CartOwnership ==
    (/\ cart.last.op \in {"removeFromCart", "updateCartItem"}
     /\ cart.last.user # Null
     /\ cart.last.before[cart.last.cartItemId] # NoCartItem
     /\ cart.last.before[cart.last.cartItemId].user_id # cart.last.user.userId
     /\ ~cart.last.user.isAdmin)
    => /\ cart.last.error # <<>>
       /\ cart.items = cart.last.before

----------------------------------------------------------------------------
(* Frontend cart reducer: the dispatches, claim C30 *)

CartProducts == {[id |-> "p1", price |-> 10], [id |-> "p2", price |-> 25]}

CartItems == [id : {"c1"}, quantity : {1, 2}, product : CartProducts]

CartPayloads == {<<>>} \cup {<<a>> : a \in CartItems} \cup {<<a, b>> : a, b \in CartItems}

\* dispatch({ type: 'SET_LOADING', payload })
SET_LOADING(payload) ==
    /\ cartState' = cartReducer(cartState, [type |-> "SET_LOADING", payload |-> payload])
    /\ UNCHANGED exceptCartState

\* dispatch({ type: 'SET_ITEMS', payload })
SET_ITEMS(payload) ==
    /\ cartState' = cartReducer(cartState, [type |-> "SET_ITEMS", payload |-> payload])
    /\ UNCHANGED exceptCartState

\* dispatch({ type: 'ADD_ITEM', payload })
ADD_ITEM(payload) ==
    /\ Len(cartState.items) < MaxCartItems
    /\ cartState.totalItems < 2 * MaxCartItems
    /\ cartState' = cartReducer(cartState, [type |-> "ADD_ITEM", payload |-> payload])
    /\ UNCHANGED exceptCartState

\* dispatch({ type: 'REMOVE_ITEM', payload: productId })
REMOVE_ITEM(productId) ==
    /\ cartState' = cartReducer(cartState, [type |-> "REMOVE_ITEM", payload |-> productId])
    /\ UNCHANGED exceptCartState

\* dispatch({ type: 'UPDATE_ITEM', payload: { productId, quantity } })
UPDATE_ITEM(productId, quantity) ==
    /\ cartState' = cartReducer(cartState,
                        [type |-> "UPDATE_ITEM",
                         payload |-> [productId |-> productId, quantity |-> quantity]])
    /\ UNCHANGED exceptCartState

\* dispatch({ type: 'CLEAR_CART' })
CLEAR_CART ==
    /\ cartState' = cartReducer(cartState, [type |-> "CLEAR_CART"])
    /\ UNCHANGED exceptCartState

NextCartState ==
    \/ \E payload \in BOOLEAN : SET_LOADING(payload)
    \/ \E payload \in CartPayloads : SET_ITEMS(payload)
    \/ \E payload \in CartItems : ADD_ITEM(payload)
    \/ \E productId \in {"p1", "p2", "p3"} : REMOVE_ITEM(productId)
    \/ \E productId \in {"p1", "p2", "p3"}, quantity \in {1, 3} :
          UPDATE_ITEM(productId, quantity)
    \/ CLEAR_CART

SpecCartState == Init /\ [][NextCartState]_vars

\* C30: after any sequence of SET_ITEMS, ADD_ITEM, REMOVE_ITEM, UPDATE_ITEM
\* and CLEAR_CART, totalItems is the sum of the quantities of state.items and
\* totalPrice the sum of product.price x quantity over them.
Cex_C30_Totals ==
    /\ cartState.totalItems = SumQuantity(cartState.items)
    /\ cartState.totalPrice = SumPrice(cartState.items)
====
